---- MODULE Spec2Model ----
(***************************************************************************)
(* A model of simply-feed-mcp: the feed manager (feed cache, item cache,   *)
(* feeds table, item table), the worker cycle and the chunk codec of the   *)
(* table backend, and the two storage backends: the remote table and the   *)
(* local file store with its document on disk.                             *)
(*                                                                         *)
(* Conventions.  Time is counted in minutes.  Strings that the code        *)
(* transforms (feed URLs) are sequences of character codes.  An optional   *)
(* value is a sequence of length 0 (undefined) or 1.  A table is the       *)
(* sequence of its rows in listing order, a row being                      *)
(* [pk |-> partition, rk |-> row key, data |-> entity].                    *)
(***************************************************************************)
EXTENDS Integers, Sequences, FiniteSets, TLC

VARIABLES
    cachedFeeds,           \* Map<string, Feed>, as the sequence of its values in insertion order
    cachedItems,           \* Map<string, FeedItem[]>, a missing entry being the empty list
    cachedFeedsTimestamp,  \* time of the last full load of the feed snapshot
    feedsTable,            \* the "feeds" table
    itemsTable,            \* the "feeditems" table
    feedCount,             \* number of feed ids drawn from uuidv4()
    itemCount,             \* number of item ids drawn from uuidv4() and kept
    now,                   \* Date.now(), in minutes
    last,                  \* the operation that completed last, with its outcome
    addFeedResults,        \* history: <<lower-cased URL, id returned>> of the addFeed calls
                           \* completed in this process
    calls,                 \* the addFeed calls in flight, each at one of its await points
    worker,                \* the worker: its position in the current cycle, and its log
    codec,                 \* a data object, the table entity made of it, the object read back
    azure,                 \* the remote backend: its table, and the outcome of its last call
    file,                  \* the local backend: its fields, and the outcome of its last call
    disk,                  \* the files of the local backend: the real path and the temp path
    guard,                 \* the initialization guard of each backend, and its callers
    query,                 \* the last query, with the result of each backend
    parser                 \* a fetched document as the XML parser gives it, and what is
                           \* extracted from it

mgrVars == <<cachedFeeds, cachedItems, cachedFeedsTimestamp, feedsTable, itemsTable,
             feedCount, itemCount, now, last, addFeedResults>>

storeVars == <<azure, file, disk, guard, query, parser>>

envVars == <<calls, worker, codec, storeVars>>

vars == <<mgrVars, envVars>>

---------------------------------------------------------------------------
(* Bounds of the model *)

MaxFeeds == 2
MaxItems == 2
MaxDocLen == 2
MaxTicks == 2
MaxCallers == 2

(* Program constants *)

FEED_PARTITION == "default"
FEEDS_CACHE_MAX_AGE_IN_MINUTES == 5
DEFAULT_RETENTION_DAYS == 5
MinutesPerDay == 1440

(* The clock starts at day 10 and advances by 3 days at a time: one step   *)
(* outlives the feed snapshot, two steps outlive the retention window.     *)
StartTime == 10 * MinutesPerDay
TickStep == 3 * MinutesPerDay

(* Feed URLs: "x", "X", "y" *)
Urls == {<<120>>, <<88>>, <<121>>}

(* The entries a fetched document can hold: without a guid (identity key   *)
(* = the link "l") and published 6 days before the start, which is outside *)
(* the retention window; or with a guid (identity key "g"), published one  *)
(* day before the start or at the start.                                   *)
NoGuid == ""
Entries == {[guid |-> NoGuid, link |-> "l", publishedTime |-> StartTime - 6 * MinutesPerDay],
            [guid |-> "g", link |-> "l", publishedTime |-> StartTime - MinutesPerDay],
            [guid |-> "g", link |-> "l", publishedTime |-> StartTime]}
Docs == UNION {[1..n -> Entries] : n \in 0..MaxDocLen}

---------------------------------------------------------------------------
(* Helpers for sequences and optional values *)

None == <<>>
Some(x) == <<x>>

Max(S) == CHOOSE x \in S : \A y \in S : y <= x
Min(S) == CHOOSE x \in S : \A y \in S : x <= y

RECURSIVE PickIdx(_, _, _)
PickIdx(s, I, i) ==
    IF i > Len(s) THEN <<>>
    ELSE (IF i \in I THEN <<s[i]>> ELSE <<>>) \o PickIdx(s, I, i + 1)

(* Array.prototype.find *)
Find(s, P(_)) ==
    LET m == SelectSeq(s, P) IN IF Len(m) = 0 THEN None ELSE Some(m[1])

(* arr.slice(skip || 0).slice(0, top || undefined) *)
Slice(s, skip, top) ==
    LET a == IF skip >= Len(s) THEN <<>> ELSE SubSeq(s, skip + 1, Len(s))
    IN  IF top = 0 \/ top >= Len(a) THEN a ELSE SubSeq(a, 1, top)

(* String.prototype.toLowerCase on character codes *)
ToLowerCase(str) ==
    [i \in DOMAIN str |-> IF str[i] \in 65..90 THEN str[i] + 32 ELSE str[i]]

(* uuidv4(): the n-th feed id, the n-th item id *)
FeedUuid(n) == "f" \o ToString(n)
ItemUuid(n) == "i" \o ToString(n)

(* item.guid?.guid || item.link *)
ItemKey(item) == IF item.guid # NoGuid THEN item.guid ELSE item.link

(* arr.sort((a, b) => b.publishedTime - a.publishedTime): stable, descending *)
InsertDesc(acc, x) ==
    LET k == Cardinality({i \in DOMAIN acc : acc[i].publishedTime >= x.publishedTime})
    IN  SubSeq(acc, 1, k) \o <<x>> \o SubSeq(acc, k + 1, Len(acc))

RECURSIVE SortFrom(_, _, _)
SortFrom(s, i, acc) ==
    IF i > Len(s) THEN acc ELSE SortFrom(s, i + 1, InsertDesc(acc, s[i]))

SortDesc(s) == SortFrom(s, 1, <<>>)

IsDescending(s) ==
    \A i \in 1..(Len(s) - 1) : s[i].publishedTime >= s[i + 1].publishedTime

(* filter((item, index, arr) => arr.findIndex(same key) === index) *)
Dedup(s) ==
    PickIdx(s, {i \in DOMAIN s : \A j \in 1..(i - 1) : ItemKey(s[j]) # ItemKey(s[i])}, 1)

HasDuplicateKey(s) ==
    \E i, j \in DOMAIN s : i < j /\ ItemKey(s[i]) = ItemKey(s[j])

---------------------------------------------------------------------------
(* The table backend, as the manager uses it *)

(* getObject(key, partition) *)
GetObject(table, key, partition) ==
    LET m == SelectSeq(table, LAMBDA r : r.pk = partition /\ r.rk = key)
    IN  IF Len(m) = 0 THEN None ELSE Some(m[1].data)

(* getAllObjects() *)
GetAllObjects(table) == [i \in DOMAIN table |-> table[i].data]

(* queryObjects(`extra_publishedTime ge ${n}L`, partition), and with the   *)
(* empty filter (fromTime = None) every entity of the partition            *)
QueryObjects(table, fromTime, partition) ==
    LET m == SelectSeq(table, LAMBDA r :
                 /\ r.pk = partition
                 /\ (fromTime = None \/ r.data.publishedTime >= fromTime[1]))
    IN  [i \in DOMAIN m |-> m[i].data]

(* queryObjects(`extra_feedUrl eq '${feedUrl}'`) *)
QueryByFeedUrl(table, feedUrl) ==
    LET m == SelectSeq(table, LAMBDA r : r.data.feedUrl = feedUrl)
    IN  [i \in DOMAIN m |-> m[i].data]

(* upsert (Replace) of one entity: in place when the row exists *)
WriteObject(table, data, partition) ==
    LET row == [pk |-> partition, rk |-> data.id, data |-> data]
        hit == {i \in DOMAIN table : table[i].pk = partition /\ table[i].rk = data.id}
    IN  IF hit = {} THEN Append(table, row)
        ELSE [i \in DOMAIN table |-> IF i \in hit THEN row ELSE table[i]]

RECURSIVE WriteFrom(_, _, _, _)
WriteFrom(table, data, partition, i) ==
    IF i > Len(data) THEN table
    ELSE WriteFrom(WriteObject(table, data[i], partition), data, partition, i + 1)

(* writeObjects(data, partition) *)
WriteObjects(table, data, partition) == WriteFrom(table, data, partition, 1)

(* deleteObjects(keys, partition) *)
DeleteObjects(table, keys, partition) ==
    SelectSeq(table, LAMBDA r : ~(r.pk = partition /\ r.rk \in keys))

---------------------------------------------------------------------------
(* SimplyFeedManager.  Every operation is a function of the manager's      *)
(* state s = [cf, ci, ts, ft, it, fc, ic] (the caches, the snapshot time,  *)
(* the two tables, the ids drawn) and returns [s, ret, err]: the state it  *)
(* leaves, the value it returns, and whether it raised.  fault names the   *)
(* storage call that raises, if the operation reaches it.                  *)

Faults == {"none", "feeds.getAll", "feeds.get", "feeds.query",
           "items.query", "items.write", "items.delete", "feeds.write"}

Ok(s, ret) == [s |-> s, ret |-> ret, err |-> FALSE]
Raise(s) == [s |-> s, ret |-> <<>>, err |-> TRUE]

(* this.cachedFeeds.set(feed.id, feed) *)
CacheSet(cf, feed) ==
    LET hit == {i \in DOMAIN cf : cf[i].id = feed.id}
    IN  IF hit = {} THEN Append(cf, feed)
        ELSE [i \in DOMAIN cf |-> IF i \in hit THEN feed ELSE cf[i]]

RECURSIVE CacheSetAll(_, _, _)
CacheSetAll(cf, feeds, i) ==
    IF i > Len(feeds) THEN cf ELSE CacheSetAll(CacheSet(cf, feeds[i]), feeds, i + 1)

(* this.cachedItems.get(id), undefined being read as the empty list *)
CachedItemsOf(ci, id) == IF id \in DOMAIN ci THEN ci[id] ELSE <<>>

(* this.cachedItems.set(id, items) *)
ItemsSet(ci, id, items) ==
    [x \in DOMAIN ci \cup {id} |-> IF x = id THEN items ELSE ci[x]]

(* createFeed *)
CreateFeed(feedUrl, n) ==
    [id |-> FeedUuid(n), feedUrl |-> feedUrl,
     latestItemPublishedTime |-> 0, firstItemPublishedTime |-> 0]

(* the snapshot test of getFeeds *)
SnapshotValid(s, t) ==
    Len(s.cf) > 0 /\ t - s.ts < FEEDS_CACHE_MAX_AGE_IN_MINUTES

(* getFeeds *)
GetFeeds(s, top, skip, t, fault) ==
    IF SnapshotValid(s, t) THEN Ok(s, Slice(s.cf, skip, top))
    ELSE IF fault = "feeds.getAll" THEN Raise(s)
    ELSE LET feeds == GetAllObjects(s.ft)
         IN  Ok([s EXCEPT !.cf = CacheSetAll(@, feeds, 1), !.ts = t], Slice(feeds, skip, top))

(* the storage lookup of getFeed: getObject<Feed>(FEED_PARTITION, id), the *)
(* parameters of getObject being (key, partition)                          *)
LookupFeed(table, id) == GetObject(table, FEED_PARTITION, id)

(* a variant of GetFeed without the catch around getObject *)
GetFeedUncaught(s, id, fault) ==
    LET c == Find(s.cf, LAMBDA f : f.id = id)
    IN  IF c # None THEN Ok(s, c)
        ELSE IF fault = "feeds.get" THEN Raise(s)
        ELSE Ok(s, LookupFeed(s.ft, id))

(* getFeed *)
GetFeed(s, id, fault) ==
    LET c == Find(s.cf, LAMBDA f : f.id = id)
    IN  IF c # None THEN Ok(s, c)
        ELSE IF fault = "feeds.get" THEN Ok(s, None)
        ELSE LET f == LookupFeed(s.ft, id)
             IN  IF f # None THEN Ok([s EXCEPT !.cf = CacheSet(@, f[1])], f)
                 ELSE Ok(s, None)

(* getFeedFromUrl *)
GetFeedFromUrl(s, feedUrl, fault) ==
    LET c == Find(s.cf, LAMBDA f : f.feedUrl = feedUrl)
    IN  IF c # None THEN Ok(s, c)
        ELSE IF fault = "feeds.query" THEN Ok(s, None)
        ELSE LET feeds == QueryByFeedUrl(s.ft, feedUrl)
             IN  IF Len(feeds) > 0
                 THEN Ok([s EXCEPT !.cf = CacheSet(@, feeds[1])], Some(feeds[1]))
                 ELSE Ok(s, None)

(* the merge of getItemsFromFeed: the queried items first, then the cache *)
MergeItems(items, cached) ==
    IF Len(cached) > 0 THEN SortDesc(Dedup(items \o cached)) ELSE items

(* getItemsFromFeed, the filter on startPublishedTime and the slices *)
ItemsPage(items, top, skip, startPublishedTime) ==
    Slice(IF startPublishedTime # 0
          THEN SelectSeq(items, LAMBDA i : i.publishedTime >= startPublishedTime)
          ELSE items,
          skip, top)

(* getItemsFromFeed, the cache being empty or behind the feed: the items   *)
(* queried are merged into the cached list, which is stored                *)
ItemsReloaded(s, feed, merged, top, skip, startPublishedTime) ==
    Ok([s EXCEPT !.ci = ItemsSet(@, feed.id, merged)],
       ItemsPage(merged, top, skip, startPublishedTime))

(* getItemsFromFeed, the feed and its cached list being known *)
ItemsOfFeed(s, feed, cached, top, skip, startPublishedTime, fault) ==
    IF Len(cached) = 0
    THEN IF fault = "items.query" THEN Raise(s)
         ELSE ItemsReloaded(s, feed,
                            MergeItems(SortDesc(QueryObjects(s.it, None, feed.id)), cached),
                            top, skip, startPublishedTime)
    ELSE IF cached[1].publishedTime < feed.latestItemPublishedTime
    THEN IF fault = "items.query" THEN Raise(s)
         ELSE ItemsReloaded(s, feed,
                            MergeItems(SortDesc(QueryObjects(s.it,
                                                             Some(cached[1].publishedTime + 1),
                                                             feed.id)),
                                       cached),
                            top, skip, startPublishedTime)
    ELSE Ok(s, ItemsPage(cached, top, skip, startPublishedTime))

(* getItemsFromFeed, from the result of getFeed *)
ItemsOfFound(g, top, skip, startPublishedTime, fault) ==
    IF g.ret = None THEN Ok(g.s, <<>>)
    ELSE ItemsOfFeed(g.s, g.ret[1], CachedItemsOf(g.s.ci, g.ret[1].id),
                     top, skip, startPublishedTime, fault)

(* getItemsFromFeed *)
GetItemsFromFeed(s, id, top, skip, startPublishedTime, fault) ==
    ItemsOfFound(GetFeed(s, id, fault), top, skip, startPublishedTime, fault)

(* extractFeedItems: one item per entry of the document.  The id is drawn  *)
(* later, for the items refreshFeed keeps; the ids of the others are never *)
(* observed.                                                               *)
ExtractFeedItems(feedId, doc) ==
    [i \in DOMAIN doc |->
        [id |-> "", feedId |-> feedId, guid |-> doc[i].guid, link |-> doc[i].link,
         publishedTime |-> doc[i].publishedTime, summary |-> FALSE]]

(* fetchItemsAndUpdateFeed, on a document that was fetched and parsed: the *)
(* items, and the feed with its timestamps recomputed                      *)
FetchItemsAndUpdateFeed(feed, doc) ==
    LET items == ExtractFeedItems(feed.id, doc)
        publishedTimes == {items[i].publishedTime : i \in DOMAIN items} \ {0}
    IN  [items |-> items,
         feed |-> IF publishedTimes # {}
                  THEN [feed EXCEPT !.latestItemPublishedTime = Max(publishedTimes),
                                    !.firstItemPublishedTime = Min(publishedTimes)]
                  ELSE feed]

(* newItems of refreshFeed: the fetched items whose key is not cached *)
NewItems(items, currentFeedItems) ==
    LET existingItemKeys == {ItemKey(currentFeedItems[i]) : i \in DOMAIN currentFeedItems}
    IN  SelectSeq(items, LAMBDA item : ItemKey(item) \notin existingItemKeys)

(* a variant of UpdatedItems that leaves the list in arrival order *)
UpdatedItemsUnsorted(currentFeedItems, newItems) == currentFeedItems \o newItems

(* updatedItems of refreshFeed *)
UpdatedItems(currentFeedItems, newItems) == SortDesc(currentFeedItems \o newItems)

(* keysToDelete of refreshFeed *)
KeysToDelete(currentFeedItems, t) ==
    LET expiredTime == t - DEFAULT_RETENTION_DAYS * MinutesPerDay
    IN  {currentFeedItems[i].id :
            i \in {j \in DOMAIN currentFeedItems : currentFeedItems[j].publishedTime <= expiredTime}}

(* a variant of OnFetchError that records the failure in the feeds table *)
OnFetchErrorRecorded(s, feed) ==
    Ok([s EXCEPT !.ft = WriteObject(@, feed, FEED_PARTITION)], <<>>)

(* the catch of refreshFeed around fetchItemsAndUpdateFeed: log, return [] *)
OnFetchError(s, feed) == Ok(s, <<>>)

(* the ids uuidv4() gives the items that refreshFeed keeps *)
WithIds(items, ic) == [i \in DOMAIN items |-> [items[i] EXCEPT !.id = ItemUuid(ic + i)]]

(* retryItems of refreshFeed *)
(* a retry set of every item of the cache *)
RetryAll(currentFeedItems) == currentFeedItems

RetryItems(currentFeedItems) == SelectSeq(currentFeedItems, LAMBDA item : ~item.summary)

(* the summarization loop of refreshFeed over processingItems: llm is the  *)
(* set of positions whose generateSummary call gives a result              *)
Summarize(processingItems, llm) ==
    [i \in DOMAIN processingItems |->
        IF i \in llm THEN [processingItems[i] EXCEPT !.summary = TRUE]
        ELSE processingItems[i]]

(* currentFeedItems after the loop: the retry items are the cached         *)
(* objects, summarized in place                                            *)
CurrentAfter(currentFeedItems, processed, n) ==
    [i \in DOMAIN currentFeedItems |->
        IF currentFeedItems[i].summary THEN currentFeedItems[i]
        ELSE processed[n + Cardinality({j \in 1..i : ~currentFeedItems[j].summary})]]

(* refreshFeed, the write of the Feed record and the return *)
RefreshFeedRecord(s, feed, newItems, fault) ==
    IF fault = "feeds.write" THEN Raise(s)
    ELSE Ok([s EXCEPT !.ft = WriteObject(@, feed, FEED_PARTITION)], newItems)

(* refreshFeed, the retention step *)
RefreshExpire(s, feed, currentFeedItems, newItems, fault, t) ==
    IF fault = "items.delete" THEN Raise(s)
    ELSE RefreshFeedRecord(
             [s EXCEPT !.it = DeleteObjects(@, KeysToDelete(currentFeedItems, t), feed.id)],
             feed, newItems, fault)

(* refreshFeed, from the summarization loop: the cache entry and the write *)
(* of the processed items, when there are any                              *)
RefreshStore(s, feed, currentFeedItems, newItems, processed, fault, t) ==
    IF Len(processed) = 0
    THEN RefreshExpire(s, feed, currentFeedItems, newItems, fault, t)
    ELSE IF fault = "items.write"
    THEN Raise([s EXCEPT !.ci = ItemsSet(@, feed.id, UpdatedItems(currentFeedItems, newItems)),
                         !.ic = @ + Len(newItems)])
    ELSE RefreshExpire(
             [s EXCEPT !.ci = ItemsSet(@, feed.id, UpdatedItems(currentFeedItems, newItems)),
                       !.ic = @ + Len(newItems),
                       !.it = WriteObjects(@, processed, feed.id)],
             feed, currentFeedItems, newItems, fault, t)

(* refreshFeed, the summarization loop *)
RefreshProcess(s, feed, currentFeedItems, processed, n, fault, t) ==
    RefreshStore(s, feed, CurrentAfter(currentFeedItems, processed, n),
                 SubSeq(processed, 1, n), processed, fault, t)

(* refreshFeed, from the new items *)
RefreshNew(s, feed, currentFeedItems, newItems, llm, fault, t) ==
    RefreshProcess(s, feed, currentFeedItems,
                   Summarize(newItems \o RetryItems(currentFeedItems), llm),
                   Len(newItems), fault, t)

(* refreshFeed, from the result of getItemsFromFeed *)
RefreshCurrent(q, f, llm, fault, t) ==
    IF q.err THEN Raise(q.s)
    ELSE RefreshNew(q.s, f.feed, q.ret, WithIds(NewItems(f.items, q.ret), q.s.ic),
                    llm, fault, t)

(* refreshFeed, from the result of fetchItemsAndUpdateFeed: the Feed       *)
(* object is the cached one, which the fetch has changed in place          *)
RefreshFetched(s, f, llm, fault, t) ==
    RefreshCurrent(GetItemsFromFeed([s EXCEPT !.cf = CacheSet(@, f.feed)], f.feed.id,
                                    0, 0, 0, fault),
                   f, llm, fault, t)

(* refreshFeed, from the result of getFeed.  fetch is None when            *)
(* fetchItemsAndUpdateFeed raises, else the parsed document.               *)
RefreshFound(g, fetch, llm, fault, t) ==
    IF g.ret = None THEN Ok(g.s, <<>>)
    ELSE IF fetch = None THEN OnFetchError(g.s, g.ret[1])
    ELSE RefreshFetched(g.s, FetchItemsAndUpdateFeed(g.ret[1], fetch[1]), llm, fault, t)

(* refreshFeed *)
RefreshFeed(s, id, fetch, llm, fault, t) ==
    RefreshFound(GetFeed(s, id, fault), fetch, llm, fault, t)

(* the lookup of addFeed *)
FindByUrl(feeds, feedUrl) ==
    Find(feeds, LAMBDA feed : ToLowerCase(feed.feedUrl) = ToLowerCase(feedUrl))

(* addFeed, the return after refreshFeed: the new Feed object *)
AddFeedReturn(r, id) ==
    IF r.err THEN Raise(r.s) ELSE Ok(r.s, Find(r.s.cf, LAMBDA x : x.id = id)[1])

(* addFeed, from the lookup *)
AddFeedFound(s, feed, newFeed, fetch, llm, fault, t) ==
    IF feed # None THEN Ok(s, feed[1])
    ELSE AddFeedReturn(RefreshFeed([s EXCEPT !.cf = CacheSet(@, newFeed), !.fc = @ + 1],
                                   newFeed.id, fetch, llm, fault, t),
                       newFeed.id)

(* addFeed, from the result of getFeeds *)
AddFeedListed(gf, fc, feedUrl, fetch, llm, fault, t) ==
    IF gf.err THEN Raise(gf.s)
    ELSE AddFeedFound(gf.s, FindByUrl(gf.ret, feedUrl), CreateFeed(feedUrl, fc + 1),
                      fetch, llm, fault, t)

(* addFeed *)
AddFeed(s, feedUrl, fetch, llm, fault, t) ==
    AddFeedListed(GetFeeds(s, 0, 0, t, fault), s.fc, feedUrl, fetch, llm, fault, t)

(* the loop of getRecentItems over the feeds *)
RECURSIVE RecentFrom(_, _, _, _, _, _)
RECURSIVE RecentNext(_, _, _, _, _, _)
RecentFrom(s, feeds, i, recencyCutOff, fault, acc) ==
    IF i > Len(feeds) THEN Ok(s, acc)
    ELSE RecentNext(GetItemsFromFeed(s, feeds[i].id, 0, 0, recencyCutOff, fault),
                    feeds, i, recencyCutOff, fault, acc)

RecentNext(r, feeds, i, recencyCutOff, fault, acc) ==
    IF r.err THEN Raise(r.s)
    ELSE RecentFrom(r.s, feeds, i + 1, recencyCutOff, fault, acc \o r.ret)

(* getRecentItems, the sort and the slices *)
RecentPage(all, top, skip) ==
    IF all.err THEN Raise(all.s) ELSE Ok(all.s, Slice(SortDesc(all.ret), skip, top))

(* getRecentItems, from the result of getFeeds *)
RecentListed(gf, recencyCutOff, top, skip, fault) ==
    IF gf.err THEN Raise(gf.s)
    ELSE RecentPage(RecentFrom(gf.s, gf.ret, 1, recencyCutOff, fault, <<>>), top, skip)

(* getRecentItems *)
GetRecentItems(s, recencyInMinutes, top, skip, t, fault) ==
    RecentListed(GetFeeds(s, 0, 0, t, fault), t - recencyInMinutes, top, skip, fault)

---------------------------------------------------------------------------
(* The chunk codec of the remote backend.  A JavaScript string is the      *)
(* sequence of its code points; a JavaScript value is [t |-> type, v |->   *)
(* content]; an object is the sequence of its members [k |-> key, v |->    *)
(* value] in insertion order.  The chunk size of the model is ChunkSize,   *)
(* standing for CHUNK_SIZE (64000), so that small payloads span chunks.    *)

MAX_CHUNKS_COUNT == 15
ChunkSize == 5
MaxTextLen == 2

Str(cs) == [t |-> "string", v |-> cs]
Num(n) == [t |-> "number", v |-> <<n>>]
NaN == [t |-> "NaN", v |-> <<>>]
Null == [t |-> "null", v |-> <<>>]

RECURSIVE FlatMap(_, _, _)
FlatMap(F(_), s, i) == IF i > Len(s) THEN <<>> ELSE F(s[i]) \o FlatMap(F, s, i + 1)

RECURSIVE Digits(_)
Digits(n) == IF n < 10 THEN <<48 + n>> ELSE Digits(n \div 10) \o <<48 + (n % 10)>>

(* the escapes of JSON.stringify: quote, backslash, line feed *)
EscapeChar(c) ==
    IF c = 34 THEN <<92, 34>>
    ELSE IF c = 92 THEN <<92, 92>>
    ELSE IF c = 10 THEN <<92, 110>>
    ELSE <<c>>

Quote(cs) == <<34>> \o FlatMap(EscapeChar, cs, 1) \o <<34>>

(* JSON.stringify of a value: NaN is written as null *)
StringifyValue(val) ==
    IF val.t = "string" THEN Quote(val.v)
    ELSE IF val.t = "number" THEN Digits(val.v[1])
    ELSE <<110, 117, 108, 108>>

RECURSIVE StringifyMembers(_, _)
StringifyMembers(obj, i) ==
    IF i > Len(obj) THEN <<>>
    ELSE (IF i > 1 THEN <<44>> ELSE <<>>)
         \o Quote(obj[i].k) \o <<58>> \o StringifyValue(obj[i].v)
         \o StringifyMembers(obj, i + 1)

(* JSON.stringify of an object *)
JsonStringify(obj) == <<123>> \o StringifyMembers(obj, 1) \o <<125>>

(* TextEncoder.encode: the UTF-8 bytes of a code point *)
Utf8Bytes(c) ==
    IF c < 128 THEN <<c>>
    ELSE IF c < 2048 THEN <<192 + (c \div 64), 128 + (c % 64)>>
    ELSE IF c < 65536
         THEN <<224 + (c \div 4096), 128 + ((c \div 64) % 64), 128 + (c % 64)>>
    ELSE <<240 + (c \div 262144), 128 + ((c \div 4096) % 64),
           128 + ((c \div 64) % 64), 128 + (c % 64)>>

Utf8Encode(cs) == FlatMap(Utf8Bytes, cs, 1)

(* TextDecoder("utf-8").decode: a lead byte with the continuation bytes   *)
(* it needs is a code point; an incomplete or ill-formed sequence is read  *)
(* as one U+FFFD                                                           *)
Utf8Need(b) ==
    IF b < 128 THEN 0
    ELSE IF b >= 192 /\ b < 224 THEN 1
    ELSE IF b >= 224 /\ b < 240 THEN 2
    ELSE IF b >= 240 /\ b < 248 THEN 3
    ELSE 4

Utf8Lead(b) ==
    IF b < 128 THEN b
    ELSE IF b < 224 THEN b - 192
    ELSE IF b < 240 THEN b - 224
    ELSE b - 240

RECURSIVE Utf8Tail(_, _, _, _)
Utf8Tail(bytes, i, n, acc) ==
    IF n = 0 THEN acc ELSE Utf8Tail(bytes, i + 1, n - 1, acc * 64 + (bytes[i] - 128))

(* the number of continuation bytes, at most n, that follow position i *)
RECURSIVE Utf8Run(_, _, _)
Utf8Run(bytes, i, n) ==
    IF n = 0 \/ i + 1 > Len(bytes) THEN 0
    ELSE IF bytes[i + 1] >= 128 /\ bytes[i + 1] < 192
         THEN 1 + Utf8Run(bytes, i + 1, n - 1)
    ELSE 0

RECURSIVE Utf8Decode(_, _)
Utf8Decode(bytes, i) ==
    IF i > Len(bytes) THEN <<>>
    ELSE LET need == Utf8Need(bytes[i])
             run == IF need < 4 THEN Utf8Run(bytes, i, need) ELSE 0
         IN  IF need < 4 /\ run = need
             THEN <<Utf8Tail(bytes, i + 1, need, Utf8Lead(bytes[i]))>>
                  \o Utf8Decode(bytes, i + need + 1)
             ELSE <<65533>> \o Utf8Decode(bytes, i + run + 1)

(* JSON.parse, for objects whose values are strings, numbers and null.     *)
(* Each parser returns [ok, val, next]: next is the position after what it *)
(* read.                                                                   *)
Parsed(val, next) == [ok |-> TRUE, val |-> val, next |-> next]
ParseError == [ok |-> FALSE, val |-> <<>>, next |-> 0]

RECURSIVE ParseChars(_, _, _)
ParseChars(cs, i, acc) ==
    IF i > Len(cs) THEN ParseError
    ELSE IF cs[i] = 34 THEN Parsed(acc, i + 1)
    ELSE IF cs[i] = 92
         THEN IF i + 1 > Len(cs) THEN ParseError
              ELSE IF cs[i + 1] = 34 THEN ParseChars(cs, i + 2, Append(acc, 34))
              ELSE IF cs[i + 1] = 92 THEN ParseChars(cs, i + 2, Append(acc, 92))
              ELSE IF cs[i + 1] = 110 THEN ParseChars(cs, i + 2, Append(acc, 10))
              ELSE ParseError
    ELSE IF cs[i] < 32 THEN ParseError
    ELSE ParseChars(cs, i + 1, Append(acc, cs[i]))

ParseString(cs, i) ==
    IF i <= Len(cs) /\ cs[i] = 34 THEN ParseChars(cs, i + 1, <<>>) ELSE ParseError

IsDigit(c) == c >= 48 /\ c <= 57

RECURSIVE ParseDigits(_, _, _)
ParseDigits(cs, i, acc) ==
    IF i <= Len(cs) /\ IsDigit(cs[i]) THEN ParseDigits(cs, i + 1, acc * 10 + (cs[i] - 48))
    ELSE Parsed(acc, i)

ParseValue(cs, i) ==
    IF i > Len(cs) THEN ParseError
    ELSE IF cs[i] = 34
         THEN LET r == ParseString(cs, i)
              IN  IF r.ok THEN Parsed(Str(r.val), r.next) ELSE ParseError
    ELSE IF IsDigit(cs[i])
         THEN LET r == ParseDigits(cs, i, 0) IN Parsed(Num(r.val), r.next)
    ELSE IF i + 3 <= Len(cs) /\ SubSeq(cs, i, i + 3) = <<110, 117, 108, 108>>
         THEN Parsed(Null, i + 4)
    ELSE ParseError

RECURSIVE ParseMembers(_, _, _)
ParseMembers(cs, i, acc) ==
    LET key == ParseString(cs, i)
        val == IF key.ok /\ key.next <= Len(cs) /\ cs[key.next] = 58
               THEN ParseValue(cs, key.next + 1) ELSE ParseError
        obj == Append(acc, [k |-> key.val, v |-> val.val])
    IN  IF ~val.ok \/ val.next > Len(cs) THEN ParseError
        ELSE IF cs[val.next] = 44 THEN ParseMembers(cs, val.next + 1, obj)
        ELSE IF cs[val.next] = 125 THEN Parsed(obj, val.next + 1)
        ELSE ParseError

(* JSON.parse: None when it raises *)
JsonParse(cs) ==
    IF Len(cs) < 2 \/ cs[1] # 123 THEN None
    ELSE IF cs = <<123, 125>> THEN Some(<<>>)
    ELSE LET r == ParseMembers(cs, 2, <<>>)
         IN  IF r.ok /\ r.next = Len(cs) + 1 THEN Some(r.val) ELSE None

(* the id of a data object *)
IdOf(data) ==
    LET m == Find(data, LAMBDA x : x.k = <<105, 100>>) IN IF m = None THEN <<>> ELSE m[1].v.v

(* the chunks of createTableEntity *)
(* a chunk count rounded down *)
TotalChunksRoundedDown(byteLength) == byteLength \div ChunkSize

TotalChunks(byteLength) == (byteLength + ChunkSize - 1) \div ChunkSize

Chunks(serializedData) ==
    [i \in 1..TotalChunks(Len(serializedData)) |->
        SubSeq(serializedData, (i - 1) * ChunkSize + 1,
               Min({Len(serializedData), i * ChunkSize}))]

(* the value of a property of a data object: None when it has none *)
PropertyOf(data, property) ==
    LET m == Find(data, LAMBDA x : x.k = property) IN IF m = None THEN None ELSE Some(m[1].v)

(* the truthiness of JavaScript: 0, NaN, "", null and undefined are falsy *)
Truthy(value) ==
    /\ value # None
    /\ value[1].t \in {"string", "number"}
    /\ value[1].v # <<>>
    /\ value[1].v # <<0>>

(* createTableEntity, the extra_ properties: a property is mirrored when   *)
(* its value is truthy                                                     *)
RECURSIVE ExtraProps(_, _, _)
ExtraProps(data, extraProps, i) ==
    IF i > Len(extraProps) THEN <<>>
    ELSE (IF Truthy(PropertyOf(data, extraProps[i]))
          THEN <<[k |-> extraProps[i], v |-> PropertyOf(data, extraProps[i])[1]]>>
          ELSE <<>>)
         \o ExtraProps(data, extraProps, i + 1)

(* values of the properties of a table entity *)
Bool(b) == [t |-> "boolean", v |-> <<b>>]
Bytes(bs) == [t |-> "bytes", v |-> bs]

(* createTableEntity: the table entity, or an error.  A property of the    *)
(* entity is None (undefined) or Some(value); dataChunk maps i to the      *)
(* value of dataChunk_(i-1), where the entity has that property.           *)
CreateTableEntity(data, partition, extraProps) ==
    LET jsonData == JsonStringify(data)
        serializedData == Utf8Encode(jsonData)
        totalChunks == TotalChunks(Len(serializedData))
        chunks == Chunks(serializedData)
    IN  IF Len(serializedData) = 0 \/ totalChunks > MAX_CHUNKS_COUNT
        THEN [err |-> TRUE, entity |-> <<>>]
        ELSE [err |-> FALSE,
              entity |-> [partitionKey |-> partition, rowKey |-> IdOf(data),
                          dataChunks |-> Some(Num(totalChunks)),
                          isProto |-> Some(Bool(FALSE)),
                          dataChunk |-> [i \in 1..totalChunks |-> Bytes(chunks[i])],
                          extra |-> ExtraProps(data, extraProps, 1)]]

RECURSIVE Concat(_, _)
Concat(chunks, i) == IF i > Len(chunks) THEN <<>> ELSE chunks[i] \o Concat(chunks, i + 1)

(* deserializeObject without the catch of what JSON.parse raises *)
DecodeChunksUncaught(isProtoBuf, chunks) ==
    LET object == JsonParse(Utf8Decode(Concat(chunks, 1), 1))
    IN  IF object = None THEN Some(<<[k |-> <<>>, v |-> Str(<<>>)]>>) ELSE object

(* deserializeObject, the try block: "Not implemented." for a protocol     *)
(* buffer, else combine, decode, parse; None (undefined) when it raises    *)
DecodeChunks(isProtoBuf, chunks) ==
    IF isProtoBuf = Bool(TRUE) THEN None
    ELSE JsonParse(Utf8Decode(Concat(chunks, 1), 1))

(* deserializeObject, the loop over the chunks: i < chunksCount *)
ChunkIndexes(chunksCount) ==
    IF chunksCount.t = "number" THEN 1..chunksCount.v[1] ELSE {}

(* deserializeObject: the object, or None (undefined) *)
DeserializeObject(entity) ==
    IF entity.isProto = None \/ entity.dataChunks = None
       \/ entity.dataChunks[1].t \notin {"number", "NaN"}
    THEN None
    ELSE LET indexes == ChunkIndexes(entity.dataChunks[1])
         IN  IF \E i \in indexes :
                    \/ i \notin DOMAIN entity.dataChunk
                    \/ entity.dataChunk[i].t # "bytes"
             THEN None
             ELSE DecodeChunks(entity.isProto[1],
                               [i \in indexes |-> entity.dataChunk[i].v])

(* the data objects of the model: an id, a title over characters of 1 to 4 *)
(* UTF-8 bytes and characters that JSON escapes, and the duration that     *)
(* parseDuration gives: none, a number, or NaN                             *)
Chars == {97, 34, 10, 233, 8364, 128512}
Texts == UNION {[1..n -> Chars] : n \in 0..MaxTextLen}
KeyId == <<105, 100>>
KeyTitle == <<116, 105, 116, 108, 101>>
KeyDuration == <<100, 117, 114, 97, 116, 105, 111, 110>>
Durations == {<<>>, <<Num(0)>>, <<Num(90)>>, <<NaN>>}
DataObjects ==
    {<<[k |-> KeyId, v |-> Str(<<97>>)], [k |-> KeyTitle, v |-> Str(title)]>>
        \o [i \in DOMAIN d |-> [k |-> KeyDuration, v |-> d[i]]] :
     title \in Texts, d \in Durations}

---------------------------------------------------------------------------
(* The manager as a state machine: one action per public operation, each   *)
(* running to completion, the inputs of the environment (the fetched       *)
(* document, the outcome of the summarization calls, the storage call that *)
(* fails) chosen freely from the sets the action is given.  The pagination *)
(* arguments and the since filter change the value an operation returns    *)
(* and never the state it leaves: the actions pass none, and the           *)
(* properties range over them.                                             *)

Cur == [cf |-> cachedFeeds, ci |-> cachedItems, ts |-> cachedFeedsTimestamp,
        ft |-> feedsTable, it |-> itemsTable, fc |-> feedCount, ic |-> itemCount]

Commit(s) ==
    /\ s.fc <= MaxFeeds
    /\ s.ic <= MaxItems
    /\ cachedFeeds' = s.cf
    /\ cachedItems' = s.ci
    /\ cachedFeedsTimestamp' = s.ts
    /\ feedsTable' = s.ft
    /\ itemsTable' = s.it
    /\ feedCount' = s.fc
    /\ itemCount' = s.ic

Fetches == {None} \cup {Some(d) : d \in Docs}
LlmOutcomes == {{}, {1}, 1..(MaxDocLen + MaxItems)}
FeedIds == {FeedUuid(n) : n \in 1..MaxFeeds}
Tops == {0, 1, 2}
Skips == {0, 1}
Sinces == {0, StartTime}
Recencies == {MinutesPerDay, 20 * MinutesPerDay}

Started == [op |-> "init", arg |-> <<>>, outcome |-> "ok"]

(* the parts of the program other than the manager, at rest *)
Callers == 1..MaxCallers
NoCall == [pc |-> "idle", feedUrl |-> <<>>, feeds |-> <<>>, newFeed |-> None]
NoCalls == [c \in Callers |-> NoCall]
WorkerIdle == [pos |-> 0, cycle |-> 0, attempted |-> {}, failed |-> {}]
NoCodec == [data |-> None, entity |-> None, object |-> None, damage |-> "none"]

(* the storage backends, as constructed: an empty remote table; a local    *)
(* store with no entity, nothing loaded and no write in flight; no file on *)
(* disk; no initialization attempted; no query made                        *)
NoAzure == [table |-> {}, before |-> {}]
NoFile == [fileLoaded |-> FALSE, dataStore |-> <<>>, isWriting |-> FALSE,
           writers |-> [c \in Callers |-> [pc |-> "idle", content |-> <<>>]]]
NoDisk == [real |-> None, temp |-> None]
NoGuard == [backend |-> "none", initialized |-> FALSE, promise |-> None, attempts |-> <<>>,
            callers |-> [c \in Callers |-> [pc |-> "idle", attempt |-> 0]]]
NoQuery == None

(* no document has been fetched *)
NoParser == None

StoreInit ==
    /\ azure = NoAzure
    /\ file = NoFile
    /\ disk = NoDisk
    /\ guard = NoGuard
    /\ query = NoQuery
    /\ parser = NoParser

Done(op, arg, r) ==
    [op |-> op, arg |-> arg, outcome |-> IF r.err THEN "raised" ELSE "ok"]

MgrInit ==
    /\ cachedFeeds = <<>>
    /\ cachedItems = <<>>
    /\ cachedFeedsTimestamp = 0
    /\ feedsTable = <<>>
    /\ itemsTable = <<>>
    /\ feedCount = 0
    /\ itemCount = 0
    /\ now = StartTime
    /\ last = Started
    /\ addFeedResults = {}

Init ==
    /\ MgrInit
    /\ calls = NoCalls
    /\ worker = WorkerIdle
    /\ codec = NoCodec
    /\ StoreInit

(* the ids a caller can know: those drawn so far, and one that names no feed *)
KnownIds == {FeedUuid(n) : n \in 1..Min({feedCount + 1, MaxFeeds})}

DoAddFeed(urls, fetches, llms, faults) ==
    \E feedUrl \in urls, fetch \in fetches, llm \in llms, fault \in faults :
        LET r == AddFeed(Cur, feedUrl, fetch, llm, fault, now)
        IN  /\ Commit(r.s)
            /\ last' = Done("addFeed", feedUrl, r)
            /\ addFeedResults' = IF r.err THEN addFeedResults
                                 ELSE addFeedResults \cup {<<ToLowerCase(feedUrl), r.ret.id>>}
            /\ UNCHANGED <<now, envVars>>

DoGetFeed(faults) ==
    \E id \in KnownIds, fault \in faults :
        LET r == GetFeed(Cur, id, fault)
        IN  /\ Commit(r.s)
            /\ last' = Done("getFeed", id, r)
            /\ UNCHANGED <<now, addFeedResults, envVars>>

DoGetFeedFromUrl(urls, faults) ==
    \E feedUrl \in urls, fault \in faults :
        LET r == GetFeedFromUrl(Cur, feedUrl, fault)
        IN  /\ Commit(r.s)
            /\ last' = Done("getFeedFromUrl", feedUrl, r)
            /\ UNCHANGED <<now, addFeedResults, envVars>>

DoGetFeeds(faults) ==
    \E fault \in faults :
        LET r == GetFeeds(Cur, 0, 0, now, fault)
        IN  /\ Commit(r.s)
            /\ last' = Done("getFeeds", <<>>, r)
            /\ UNCHANGED <<now, addFeedResults, envVars>>

DoGetItemsFromFeed(faults) ==
    \E id \in KnownIds, fault \in faults :
        LET r == GetItemsFromFeed(Cur, id, 0, 0, 0, fault)
        IN  /\ Commit(r.s)
            /\ last' = Done("getItemsFromFeed", id, r)
            /\ UNCHANGED <<now, addFeedResults, envVars>>

DoGetRecentItems(faults) ==
    \E fault \in faults :
        LET r == GetRecentItems(Cur, MinutesPerDay, 0, 0, now, fault)
        IN  /\ Commit(r.s)
            /\ last' = Done("getRecentItems", <<>>, r)
            /\ UNCHANGED <<now, addFeedResults, envVars>>

DoRefreshFeed(fetches, llms, faults) ==
    \E id \in KnownIds, fault \in faults :
        IF GetFeed(Cur, id, fault).ret = None
        THEN \* no feed: nothing is fetched
             /\ Commit(RefreshFeed(Cur, id, None, {}, fault, now).s)
             /\ last' = [op |-> "refreshFeed", arg |-> id, outcome |-> "no feed"]
             /\ UNCHANGED <<now, addFeedResults, envVars>>
        ELSE \E fetch \in fetches, llm \in llms :
                LET r == RefreshFeed(Cur, id, fetch, llm, fault, now)
                IN  /\ Commit(r.s)
                    /\ last' = IF fetch = None
                               THEN [op |-> "refreshFeed", arg |-> id,
                                     outcome |-> "fetch failed"]
                               ELSE Done("refreshFeed", id, r)
                    /\ UNCHANGED <<now, addFeedResults, envVars>>

(* time passes *)
Tick ==
    /\ now < StartTime + MaxTicks * TickStep
    /\ now' = now + TickStep
    /\ UNCHANGED <<cachedFeeds, cachedItems, cachedFeedsTimestamp, feedsTable, itemsTable,
                   feedCount, itemCount, last, addFeedResults, envVars>>

(* the process ends and a new one constructs its manager on the same tables *)
Restart ==
    /\ cachedFeeds' = <<>>
    /\ cachedItems' = <<>>
    /\ cachedFeedsTimestamp' = 0
    /\ last' = Started
    /\ addFeedResults' = {}
    /\ UNCHANGED <<feedsTable, itemsTable, feedCount, itemCount, now, envVars>>

(* Spec: the item-level operations on one feed URL, with every document,   *)
(* storage faults on the reads and the writes, and restarts                *)
OneUrl == {<<120>>}
NoSummaries == {{}}

Next ==
    \/ DoAddFeed(OneUrl, {None, Some(<<>>)}, NoSummaries, {"none"})
    \/ DoGetItemsFromFeed({"none", "items.query"})
    \/ DoGetRecentItems({"none"})
    \/ DoRefreshFeed(Fetches, NoSummaries, {"none", "items.write", "feeds.write"})
    \/ Restart

Spec == Init /\ [][Next]_vars

(* SpecFeeds: the feed-level operations, with the passage of time *)
NextFeeds ==
    \/ DoAddFeed(Urls, {None, Some(<<>>)}, NoSummaries,
                 {"none", "feeds.getAll", "feeds.write"})
    \/ DoGetFeed({"none", "feeds.get"})
    \/ DoGetFeedFromUrl(Urls, {"none", "feeds.query"})
    \/ DoGetFeeds({"none", "feeds.getAll"})
    \/ Tick
    \/ Restart

SpecFeeds == Init /\ [][NextFeeds]_vars

(* SpecRecent: the item-level operations on two feeds, with documents of   *)
(* at most one entry                                                       *)
TwoUrls == {<<120>>, <<121>>}
ShortFetches == {None, Some(<<>>)} \cup {Some(<<e>>) : e \in Entries}

NextRecent ==
    \/ DoAddFeed(TwoUrls, {None, Some(<<>>)}, NoSummaries, {"none"})
    \/ DoGetItemsFromFeed({"none"})
    \/ DoGetRecentItems({"none", "items.query"})
    \/ DoRefreshFeed(ShortFetches, NoSummaries, {"none"})
    \/ Restart

SpecRecent == Init /\ [][NextRecent]_vars

(* SpecRefresh: addFeed and refreshFeed on one feed URL, with documents of *)
(* at most one entry, storage faults on the writes, and restarts           *)
NextRefresh ==
    \/ DoAddFeed(OneUrl, {None, Some(<<>>)}, NoSummaries, {"none"})
    \/ DoRefreshFeed(ShortFetches, NoSummaries, {"none", "items.write", "feeds.write"})
    \/ Restart

SpecRefresh == Init /\ [][NextRefresh]_vars

---------------------------------------------------------------------------
(* Concurrent callers of addFeed.  A call runs from one await to the next  *)
(* without interruption: to the result of getFeeds; then the lookup, to    *)
(* the result of createFeed; then the cache entry and refreshFeed.         *)

CaseUrls == {<<120>>, <<88>>}

(* addFeed, to the await of getFeeds *)
CallAddFeed(urls) ==
    \E c \in Callers, feedUrl \in urls :
        LET gf == GetFeeds(Cur, 0, 0, now, "none")
        IN  /\ calls[c].pc = "idle"
            /\ Commit(gf.s)
            /\ calls' = [calls EXCEPT ![c] = [pc |-> "getFeeds", feedUrl |-> feedUrl,
                                              feeds |-> gf.ret, newFeed |-> None]]
            /\ UNCHANGED <<now, last, addFeedResults, worker, codec, storeVars>>

(* addFeed, from the result of getFeeds: return the feed found, or go on   *)
(* to the await of createFeed                                              *)
ResumeAddFeed ==
    \E c \in Callers :
        LET feed == FindByUrl(calls[c].feeds, calls[c].feedUrl)
        IN  /\ calls[c].pc = "getFeeds"
            /\ \/ /\ feed # None
                  /\ calls' = [calls EXCEPT ![c] = NoCall]
                  /\ last' = [op |-> "addFeed", arg |-> calls[c].feedUrl, outcome |-> "ok"]
                  /\ addFeedResults' = addFeedResults
                                       \cup {<<ToLowerCase(calls[c].feedUrl), feed[1].id>>}
                  /\ UNCHANGED feedCount
               \/ /\ feed = None
                  /\ feedCount < MaxFeeds
                  /\ feedCount' = feedCount + 1
                  /\ calls' = [calls EXCEPT ![c].pc = "createFeed",
                                            ![c].newFeed = Some(CreateFeed(calls[c].feedUrl,
                                                                           feedCount + 1))]
                  /\ UNCHANGED <<last, addFeedResults>>
            /\ UNCHANGED <<cachedFeeds, cachedItems, cachedFeedsTimestamp, feedsTable,
                           itemsTable, itemCount, now, worker, codec, storeVars>>

(* addFeed, from the result of createFeed: the cache entry, and refreshFeed *)
(* to its first await                                                      *)
CacheNewFeed ==
    \E c \in Callers :
        /\ calls[c].pc = "createFeed"
        /\ cachedFeeds' = CacheSet(cachedFeeds, calls[c].newFeed[1])
        /\ calls' = [calls EXCEPT ![c].pc = "refreshFeed"]
        /\ UNCHANGED <<cachedItems, cachedFeedsTimestamp, feedsTable, itemsTable, feedCount,
                       itemCount, now, last, addFeedResults, worker, codec, storeVars>>

(* addFeed, the rest of refreshFeed and the return *)
FinishAddFeed(fetches) ==
    \E c \in Callers, fetch \in fetches :
        LET id == calls[c].newFeed[1].id
            r == RefreshFeed(Cur, id, fetch, {}, "none", now)
        IN  /\ calls[c].pc = "refreshFeed"
            /\ Commit(r.s)
            /\ calls' = [calls EXCEPT ![c] = NoCall]
            /\ last' = Done("addFeed", calls[c].feedUrl, r)
            /\ addFeedResults' = addFeedResults \cup {<<ToLowerCase(calls[c].feedUrl), id>>}
            /\ UNCHANGED <<now, worker, codec, storeVars>>

NextConc ==
    \/ CallAddFeed(CaseUrls)
    \/ ResumeAddFeed
    \/ CacheNewFeed
    \/ FinishAddFeed({None, Some(<<>>)})

SpecConc == Init /\ [][NextConc]_vars

---------------------------------------------------------------------------
(* The worker.  A cycle is one run of processor: the configured feeds in   *)
(* order, under one try/catch.  worker.pos is the position of the feed to  *)
(* process next, 0 between cycles; worker.attempted and worker.failed are  *)
(* the positions processed, and those that raised, in the latest cycle.    *)

MaxCycles == 2
Configs == <<<<120>>, <<121>>>>

(* processor is called: at the start, or by the interval timer *)
StartCycle ==
    /\ worker.pos = 0
    /\ worker.cycle < MaxCycles
    /\ worker' = [pos |-> 1, cycle |-> worker.cycle + 1, attempted |-> {}, failed |-> {}]
    /\ UNCHANGED <<mgrVars, calls, codec, storeVars>>

(* one iteration of the loop of processor; an error leaves the loop for    *)
(* the catch, which ends the cycle                                         *)
ProcessConfig(fetches, faults) ==
    \E fetch \in fetches, fault \in faults :
        LET pos == worker.pos
            feedUrl == Configs[pos]
            g == GetFeedFromUrl(Cur, feedUrl, fault)
            r == IF g.ret = None THEN AddFeed(g.s, feedUrl, fetch, {}, fault, now)
                 ELSE RefreshFeed(g.s, g.ret[1].id, fetch, {}, fault, now)
        IN  /\ pos > 0
            /\ Commit(r.s)
            /\ worker' = [worker EXCEPT
                            !.attempted = @ \cup {pos},
                            !.failed = IF r.err THEN @ \cup {pos} ELSE @,
                            !.pos = IF r.err \/ pos = Len(Configs) THEN 0 ELSE pos + 1]
            /\ last' = Done(IF g.ret = None THEN "addFeed" ELSE "refreshFeed", feedUrl, r)
            /\ addFeedResults' = IF g.ret = None /\ ~r.err
                                 THEN addFeedResults \cup {<<ToLowerCase(feedUrl), r.ret.id>>}
                                 ELSE addFeedResults
            /\ UNCHANGED <<now, calls, codec, storeVars>>

NextWorker ==
    \/ StartCycle
    \/ ProcessConfig({None, Some(<<>>)} \cup {Some(<<e>>) : e \in Entries},
                     {"none", "items.write", "feeds.write"})

SpecWorker == Init /\ [][NextWorker]_vars

---------------------------------------------------------------------------
(* The codec: a data object is made into a table entity, and the entity is *)
(* read back.                                                              *)

InitCodec ==
    /\ MgrInit
    /\ calls = NoCalls
    /\ worker = WorkerIdle
    /\ codec \in {[data |-> Some(d), entity |-> None, object |-> None, damage |-> "none"] :
                   d \in DataObjects}
    /\ StoreInit

DoCreateTableEntity ==
    LET r == CreateTableEntity(codec.data[1], FEED_PARTITION, <<>>)
    IN  /\ codec.data # None
        /\ codec.entity = None
        /\ ~r.err
        /\ codec' = [codec EXCEPT !.entity = Some(r.entity)]
        /\ UNCHANGED <<mgrVars, calls, worker, storeVars>>

DoDeserializeObject ==
    /\ codec.entity # None
    /\ codec.object = None
    /\ codec' = [codec EXCEPT !.object = Some(DeserializeObject(codec.entity[1]))]
    /\ UNCHANGED <<mgrVars, calls, worker, storeVars>>

NextCodec ==
    \/ DoCreateTableEntity
    \/ DoDeserializeObject

SpecCodec == InitCodec /\ [][NextCodec]_vars

---------------------------------------------------------------------------
(* Properties of the manager *)

CachedFeed(id) == Find(cachedFeeds, LAMBDA f : f.id = id)
StoredFeed(id) == GetObject(feedsTable, id, FEED_PARTITION)
StoredItems(id) == QueryObjects(itemsTable, None, id)
RetentionCutOff == now - DEFAULT_RETENTION_DAYS * MinutesPerDay

(* C1: two completed addFeed calls whose URLs are equal up to letter case  *)
(* return the same feed id, whatever the outcome of the fetch and however  *)
(* much time passed between them.                                          *)
C1_SameUrlSameId ==
    \A p, q \in addFeedResults : p[1] = q[1] => p[2] = q[2]

(* C3: when the feed id is not in the cache and the feeds table holds the  *)
(* feed at (partition "default", row key id), getFeed(id) returns that     *)
(* feed and puts it in the cache.                                          *)
C3_GetFeedLoadsStoredFeed ==
    \A id \in FeedIds :
        (CachedFeed(id) = None /\ StoredFeed(id) # None) =>
            LET r == GetFeed(Cur, id, "none")
            IN  /\ r.ret = StoredFeed(id)
                /\ Find(r.s.cf, LAMBDA f : f.id = id) = StoredFeed(id)

(* C4: once a getItemsFromFeed or a refreshFeed has completed, no cached   *)
(* item list holds two items with the same identity key.                   *)
C4_NoDuplicateKeys ==
    (last.op \in {"getItemsFromFeed", "refreshFeed"} /\ last.outcome # "raised") =>
        \A id \in DOMAIN cachedItems : ~HasDuplicateKey(cachedItems[id])

(* C5: once a refreshFeed whose fetch succeeded has completed, the item    *)
(* table holds no item of that feed published before now minus the         *)
(* retention period.                                                       *)
C5_RetentionAfterRefresh ==
    (last.op = "refreshFeed" /\ last.outcome = "ok") =>
        LET stored == StoredItems(last.arg)
        IN  \A i \in DOMAIN stored : stored[i].publishedTime >= RetentionCutOff

(* C7: a refreshFeed whose fetch or parse fails returns the empty list,    *)
(* does not raise, and leaves the feeds table and the item table as they   *)
(* were, whatever storage call would have failed.                          *)
C7_FetchFailureWritesNothing ==
    \A id \in FeedIds, llm \in LlmOutcomes, fault \in Faults :
        LET r == RefreshFeed(Cur, id, None, llm, fault, now)
        IN  /\ ~r.err
            /\ r.ret = <<>>
            /\ r.s.ft = feedsTable
            /\ r.s.it = itemsTable

C7_Witness ==
    /\ last = [op |-> "refreshFeed", arg |-> FeedUuid(1), outcome |-> "fetch failed"]
    /\ CachedFeed(FeedUuid(1)) # None
    /\ StoredFeed(FeedUuid(1)) # None
    /\ StoredItems(FeedUuid(1)) # <<>>

(* C8: two getItemsFromFeed calls with the same arguments, one straight    *)
(* after the other, return the same list and leave the same cached list;   *)
(* the since argument changes nothing in the cache.                        *)
C8_GetItemsIdempotent ==
    \A id \in FeedIds, top \in Tops, skip \in Skips, since \in Sinces :
        LET a == GetItemsFromFeed(Cur, id, top, skip, since, "none")
            b == GetItemsFromFeed(a.s, id, top, skip, since, "none")
            c == GetItemsFromFeed(Cur, id, top, skip, 0, "none")
        IN  /\ b.ret = a.ret
            /\ b.s.ci = a.s.ci
            /\ c.s.ci = a.s.ci

(* C9: every list getItemsFromFeed returns, and every list getRecentItems  *)
(* returns, is in non-increasing order of publishedTime.                   *)
C9_ResultsDescending ==
    /\ \A id \in FeedIds, top \in Tops, skip \in Skips, since \in Sinces :
           IsDescending(GetItemsFromFeed(Cur, id, top, skip, since, "none").ret)
    /\ \A recency \in Recencies, top \in Tops, skip \in Skips :
           IsDescending(GetRecentItems(Cur, recency, top, skip, now, "none").ret)

C9_Witness ==
    /\ last.op = "getRecentItems"
    /\ last.outcome = "ok"
    /\ LET r == GetRecentItems(Cur, 20 * MinutesPerDay, 0, 0, now, "none").ret
       IN  /\ Len(r) >= 2
           /\ r[1].publishedTime > r[2].publishedTime
           /\ r[1].feedId # r[2].feedId

---------------------------------------------------------------------------
(* Properties of concurrent callers, of the worker and of the codec *)

UniqueUrls(feeds) ==
    \A i, j \in DOMAIN feeds :
        (ToLowerCase(feeds[i].feedUrl) = ToLowerCase(feeds[j].feedUrl)
         /\ feeds[i].id = feeds[j].id) \/ i = j
        \/ ToLowerCase(feeds[i].feedUrl) # ToLowerCase(feeds[j].feedUrl)

(* C2: in every reachable state, with addFeed calls for the same URL       *)
(* interleaved, no two distinct Feed records of the feed cache, and no two *)
(* of the feeds table, have feedUrl values equal up to letter case.        *)
C2_UniqueFeedUrls ==
    /\ UniqueUrls(cachedFeeds)
    /\ UniqueUrls(GetAllObjects(feedsTable))

(* C6: in a worker cycle an error raised for one configured feed is caught *)
(* for that feed only: when the cycle has ended, every configured feed has *)
(* been processed in it.                                                   *)
C6_ErrorIsolated ==
    (worker.pos = 0 /\ worker.cycle > 0) => worker.attempted = DOMAIN Configs

(* C10: a data object that fits the chunk ceiling, made into a table       *)
(* entity and read back, is the object that was written.                   *)
C10_RoundTrip ==
    codec.object # None => codec.object[1] = codec.data

(* the same, for the data objects that hold no NaN: whatever the place of  *)
(* the chunk boundaries in the bytes of the characters                     *)
RoundTripOfJsonValues ==
    (codec.object # None /\ \A i \in DOMAIN codec.data[1] : codec.data[1][i].v # NaN) =>
        codec.object[1] = codec.data

---------------------------------------------------------------------------
(* The storage backends.  The remote table is the set of its entities, one *)
(* for each (partitionKey, rowKey).  The local store is the sequence of    *)
(* its StoredEntity records in the order of their insertion.  A batch of   *)
(* the model holds BatchSize entities, standing for BATCH_SIZE (100).      *)

BatchSize == 2

(* "publishedTime", "topics", and the extraProps that refreshFeed passes    *)
(* with the items                                                          *)
KeyPublishedTime == <<112, 117, 98, 108, 105, 115, 104, 101, 100, 84, 105, 109, 101>>
KeyTopics == <<116, 111, 112, 105, 99, 115>>
ITEM_EXTRA_PROPS == <<KeyTitle, KeyPublishedTime, KeyTopics>>

(* upsertEntity with "Replace" *)
Upsert(table, entity) ==
    {e \in table : e.partitionKey # entity.partitionKey \/ e.rowKey # entity.rowKey}
    \cup {entity}

(* submitTransaction of upsert actions: all of them, in order *)
RECURSIVE SubmitTransaction(_, _, _)
SubmitTransaction(table, entities, i) ==
    IF i > Len(entities) THEN table
    ELSE SubmitTransaction(Upsert(table, entities[i].entity), entities, i + 1)

(* AzureTableReadWriter.writeObject: the table it leaves, and whether it   *)
(* raised                                                                  *)
AzureWriteObject(table, data, partition, extraProps) ==
    LET r == CreateTableEntity(data, partition, extraProps)
    IN  IF r.err THEN [err |-> TRUE, table |-> table]
        ELSE [err |-> FALSE, table |-> Upsert(table, r.entity)]

(* AzureTableReadWriter.writeObjects, from the batch that starts at i: the *)
(* entities of the batch are created, then submitted as one transaction    *)
RECURSIVE AzureWriteBatches(_, _, _, _, _)
AzureWriteBatches(table, data, partition, extraProps, i) ==
    IF i > Len(data) THEN [err |-> FALSE, table |-> table]
    ELSE LET batch == SubSeq(data, i, Min({Len(data), i + BatchSize - 1}))
             entities == [j \in DOMAIN batch |->
                             CreateTableEntity(batch[j], partition, extraProps)]
         IN  IF \E j \in DOMAIN entities : entities[j].err
             THEN [err |-> TRUE, table |-> table]
             ELSE AzureWriteBatches(SubmitTransaction(table, entities, 1), data, partition,
                                    extraProps, i + BatchSize)

AzureWriteObjects(table, data, partition, extraProps) ==
    AzureWriteBatches(table, data, partition, extraProps, 1)

(* the StoredEntity of FileTableReadWriter.writeObject *)
StoredEntity(data, partition, t) ==
    [id |-> IdOf(data), partition |-> partition, data |-> data, timestamp |-> t]

(* dataStore.entities[partition][data.id] = storedEntity: a key that the   *)
(* partition holds keeps its place                                         *)
PutEntity(entities, storedEntity) ==
    LET at == {i \in DOMAIN entities : /\ entities[i].partition = storedEntity.partition
                                       /\ entities[i].id = storedEntity.id}
    IN  IF at = {} THEN Append(entities, storedEntity)
        ELSE [i \in DOMAIN entities |-> IF i \in at THEN storedEntity ELSE entities[i]]

(* FileTableReadWriter.writeObject without the disk write: it never raises *)
(* for a data object that is not a protocol buffer                         *)
FileWriteObject(entities, data, partition, t) ==
    [err |-> FALSE, entities |-> PutEntity(entities, StoredEntity(data, partition, t))]

(* the document of the local store, JSON.stringify(dataStore), as the      *)
(* sequence of its blocks: the opening of the document, one block for each *)
(* entity, the closing.  A file that was not written to its end holds a    *)
(* proper prefix of the document.                                          *)
Document(entities) ==
    <<[b |-> "open"]>> \o [i \in DOMAIN entities |-> [b |-> "entity", e |-> entities[i]]]
    \o <<[b |-> "close"]>>

(* JSON.parse of a file: the entities, or None when it raises *)
ParseDocument(content) ==
    IF Len(content) >= 2 /\ content[Len(content)].b = "close"
    THEN Some([i \in 1..(Len(content) - 2) |-> content[i + 1].e])
    ELSE None

(* the paths of the local backend: dataFilePath, and the temp path of      *)
(* writeToDisk                                                             *)
DataFilePath == "real"

(* writeToDisk writing the document in place *)
TempFilePathInPlace == DataFilePath

TempFilePath == "temp"

(* loadFromDisk: the entities of the store it leaves, or an error.  A file *)
(* that does not exist (ENOENT) gives the empty store.                     *)
LoadFromDisk(d) ==
    IF d[DataFilePath] = None THEN [err |-> FALSE, entities |-> <<>>]
    ELSE IF ParseDocument(d[DataFilePath][1]) = None THEN [err |-> TRUE, entities |-> <<>>]
    ELSE [err |-> FALSE, entities |-> ParseDocument(d[DataFilePath][1])[1]]

(* fs.rename *)
Rename(d, from, to) ==
    IF from = to THEN d ELSE [d EXCEPT ![to] = d[from], ![from] = None]

---------------------------------------------------------------------------
(* Writes on the two backends, each call running to completion.  The data  *)
(* objects written have a title of n letters: none, as many as bring the   *)
(* payload to the ceiling of MAX_CHUNKS_COUNT chunks exactly, and one      *)
(* more.                                                                   *)

Repeat(c, n) == [i \in 1..n |-> c]

SizedObject(id, n) ==
    <<[k |-> KeyId, v |-> Str(<<id>>)], [k |-> KeyTitle, v |-> Str(Repeat(97, n))]>>

ByteLength(data) == Len(Utf8Encode(JsonStringify(data)))
ChunksNeeded(data) == TotalChunks(ByteLength(data))

CeilingLength == MAX_CHUNKS_COUNT * ChunkSize - ByteLength(SizedObject(97, 0))
TitleLengths == {0, CeilingLength, CeilingLength + 1}
Batches ==
    UNION {{[i \in 1..n |-> SizedObject(96 + i, f[i])] :
               f \in [1..n -> {0, CeilingLength + 1}]} :
           n \in 1..(BatchSize + 1)}

DoAzureWriteObject(objects) ==
    \E data \in objects :
        LET r == AzureWriteObject(azure.table, data, FEED_PARTITION, ITEM_EXTRA_PROPS)
        IN  /\ azure' = [table |-> r.table, before |-> azure.table]
            /\ last' = Done("azure.writeObject", data, r)
            /\ UNCHANGED <<cachedFeeds, cachedItems, cachedFeedsTimestamp, feedsTable,
                           itemsTable, feedCount, itemCount, now, addFeedResults,
                           calls, worker, codec, file, disk, guard, query, parser>>

DoAzureWriteObjects ==
    \E data \in Batches :
        LET r == AzureWriteObjects(azure.table, data, FEED_PARTITION, ITEM_EXTRA_PROPS)
        IN  /\ azure' = [table |-> r.table, before |-> azure.table]
            /\ last' = Done("azure.writeObjects", data, r)
            /\ UNCHANGED <<cachedFeeds, cachedItems, cachedFeedsTimestamp, feedsTable,
                           itemsTable, feedCount, itemCount, now, addFeedResults,
                           calls, worker, codec, file, disk, guard, query, parser>>

(* FileTableReadWriter.writeObject with no write in flight: the document   *)
(* is loaded if it was not, the entity is put in the store and the         *)
(* document is written                                                     *)
DoFileWriteObject(objects) ==
    \E data \in objects :
        LET loaded == IF file.fileLoaded THEN file.dataStore
                      ELSE LoadFromDisk(disk).entities
            r == FileWriteObject(loaded, data, FEED_PARTITION, now)
        IN  /\ ~file.isWriting
            /\ file' = [file EXCEPT !.fileLoaded = TRUE, !.dataStore = r.entities]
            /\ disk' = [disk EXCEPT !.real = Some(Document(r.entities))]
            /\ last' = Done("file.writeObject", data, r)
            /\ UNCHANGED <<cachedFeeds, cachedItems, cachedFeedsTimestamp, feedsTable,
                           itemsTable, feedCount, itemCount, now, addFeedResults,
                           calls, worker, codec, azure, guard, query, parser>>

NextWrite ==
    \/ DoAzureWriteObject({SizedObject(97, n) : n \in TitleLengths})
    \/ DoAzureWriteObjects
    \/ DoFileWriteObject({SizedObject(97, n) : n \in TitleLengths})

SpecWrite == Init /\ [][NextWrite]_vars

(* C11: on both backends, writing an entity whose encoded JSON needs more  *)
(* than MAX_CHUNKS_COUNT chunks raises, writing one that needs at most     *)
(* MAX_CHUNKS_COUNT chunks succeeds, and no backend holds, in its table,   *)
(* in its store or on disk, an entity of more than MAX_CHUNKS_COUNT chunks.*)
StoredOnDisk == IF disk.real = None THEN <<>> ELSE ParseDocument(disk.real[1])[1]

C11_ChunkCeiling ==
    /\ last.op \in {"azure.writeObject", "file.writeObject"} =>
           (last.outcome = "raised" <=> ChunksNeeded(last.arg) > MAX_CHUNKS_COUNT)
    /\ \A e \in azure.table : e.dataChunks[1].v[1] <= MAX_CHUNKS_COUNT
    /\ \A i \in DOMAIN file.dataStore :
           ChunksNeeded(file.dataStore[i].data) <= MAX_CHUNKS_COUNT
    /\ \A i \in DOMAIN StoredOnDisk : ChunksNeeded(StoredOnDisk[i].data) <= MAX_CHUNKS_COUNT

(* the part of C11 that is about the remote backend *)
ChunkCeilingOfRemote ==
    /\ last.op = "azure.writeObject" =>
           /\ last.outcome = "raised" <=> ChunksNeeded(last.arg) > MAX_CHUNKS_COUNT
           /\ last.outcome = "raised" => azure.table = azure.before
           /\ last.outcome = "ok" =>
                  \E e \in azure.table :
                      /\ e.rowKey = IdOf(last.arg)
                      /\ e.dataChunks = Some(Num(ChunksNeeded(last.arg)))
    /\ \A e \in azure.table : e.dataChunks[1].v[1] <= MAX_CHUNKS_COUNT

(* C12: a writeObjects call on the remote backend in which some entity     *)
(* exceeds the chunk ceiling raises and leaves the table as it was before  *)
(* the call, whatever the number of entities of the call.                  *)
C12_BatchAllOrNothing ==
    (last.op = "azure.writeObjects"
     /\ \E i \in DOMAIN last.arg : ChunksNeeded(last.arg[i]) > MAX_CHUNKS_COUNT) =>
        /\ last.outcome = "raised"
        /\ azure.table = azure.before

(* the same for the calls of at most BatchSize entities *)
OneBatchAllOrNothing ==
    (last.op = "azure.writeObjects" /\ Len(last.arg) <= BatchSize
     /\ \E i \in DOMAIN last.arg : ChunksNeeded(last.arg[i]) > MAX_CHUNKS_COUNT) =>
        /\ last.outcome = "raised"
        /\ azure.table = azure.before

---------------------------------------------------------------------------
(* Decoding a stored record that is not what createTableEntity made: a     *)
(* property is missing or has another type, or the bytes are not those of  *)
(* a JSON text.                                                            *)

Damages ==
    {"isProto missing", "dataChunks missing", "dataChunks not a number", "dataChunks NaN",
     "chunk missing", "chunk not bytes", "truncated", "not JSON"}

(* the entity with the damage, at chunk i where the damage is to one chunk: *)
(* "truncated" takes the last byte, the closing brace, away; "not JSON"    *)
(* puts a byte that is no UTF-8 in the place of the opening brace          *)
Damaged(entity, damage, i) ==
    IF damage = "isProto missing" THEN [entity EXCEPT !.isProto = None]
    ELSE IF damage = "dataChunks missing" THEN [entity EXCEPT !.dataChunks = None]
    ELSE IF damage = "dataChunks not a number"
         THEN [entity EXCEPT !.dataChunks = Some(Str(Digits(entity.dataChunks[1].v[1])))]
    ELSE IF damage = "dataChunks NaN" THEN [entity EXCEPT !.dataChunks = Some(NaN)]
    ELSE IF damage = "chunk missing"
         THEN [entity EXCEPT !.dataChunk = [j \in DOMAIN @ \ {i} |-> @[j]]]
    ELSE IF damage = "chunk not bytes"
         THEN [entity EXCEPT !.dataChunk[i] = Str(@.v)]
    ELSE IF damage = "truncated"
         THEN [entity EXCEPT !.dataChunk[Len(entity.dataChunk)] =
                                 Bytes(SubSeq(@.v, 1, Len(@.v) - 1))]
    ELSE [entity EXCEPT !.dataChunk[1] = Bytes(<<128>> \o Tail(@.v))]

DoDamage ==
    /\ codec.entity # None
    /\ codec.object = None
    /\ codec.damage = "none"
    /\ \E damage \in Damages, i \in DOMAIN codec.entity[1].dataChunk :
           codec' = [codec EXCEPT !.entity = Some(Damaged(codec.entity[1], damage, i)),
                                  !.damage = damage]
    /\ UNCHANGED <<mgrVars, calls, worker, storeVars>>

NextDecode ==
    \/ DoCreateTableEntity
    \/ DoDamage
    \/ DoDeserializeObject

SpecDecode == InitCodec /\ [][NextDecode]_vars

(* C13: deserializeObject of a record whose isProto or dataChunks is       *)
(* missing, whose dataChunks is not a number, one of whose chunks is       *)
(* missing or not a byte array, or whose bytes are not a JSON text,        *)
(* returns undefined.                                                      *)
C13_DamagedRecordIsAbsent ==
    (codec.object # None /\ codec.damage # "none") => codec.object[1] = None

C13_Witness ==
    /\ codec.damage = "truncated"
    /\ codec.entity[1].dataChunks[1].v[1] > 1
    /\ codec.object = Some(None)

---------------------------------------------------------------------------
(* The initialization guard of a backend: createTable of the remote        *)
(* backend (tableCreated, createTablePromise) and ensureLoaded of the      *)
(* local backend (fileLoaded, loadPromise), which are the same code.       *)
(* guard.initialized is the flag, guard.promise the promise field (the     *)
(* number of the attempt it is the promise of), guard.attempts the status  *)
(* of every attempt started, in order.  A caller is "idle", the "starter"  *)
(* of an attempt or a "waiter" for one, both at their await, then in its   *)
(* storage operation ("op") or "failed" with the error of the attempt.     *)

MaxAttempts == 2
Backends == {"azure", "file"}

GuardOf(backend) == [NoGuard EXCEPT !.backend = backend]

(* the guard without the check of the promise field *)
EnsureEnteredAlone(g, c) ==
    IF g.initialized THEN [g EXCEPT !.callers[c] = [pc |-> "op", attempt |-> 0]]
    ELSE [g EXCEPT !.attempts = Append(@, "pending"),
                   !.promise = Some(Len(g.attempts) + 1),
                   !.callers[c] = [pc |-> "starter", attempt |-> Len(g.attempts) + 1]]

(* createTable / ensureLoaded, to the return or to the await *)
EnsureEntered(g, c) ==
    IF g.initialized THEN [g EXCEPT !.callers[c] = [pc |-> "op", attempt |-> 0]]
    ELSE IF g.promise # None
         THEN [g EXCEPT !.callers[c] = [pc |-> "waiter", attempt |-> g.promise[1]]]
    ELSE [g EXCEPT !.attempts = Append(@, "pending"),
                   !.promise = Some(Len(g.attempts) + 1),
                   !.callers[c] = [pc |-> "starter", attempt |-> Len(g.attempts) + 1]]

(* the starter after its await, without the finally block *)
StarterResumedNoFinally(g, c) ==
    IF g.attempts[g.callers[c].attempt] = "resolved"
    THEN [g EXCEPT !.initialized = TRUE, !.promise = None, !.callers[c].pc = "op"]
    ELSE [g EXCEPT !.callers[c].pc = "failed"]

(* createTable / ensureLoaded, the starter after its await: the flag is    *)
(* set when the attempt succeeded, the promise field is cleared in finally *)
StarterResumed(g, c) ==
    IF g.attempts[g.callers[c].attempt] = "resolved"
    THEN [g EXCEPT !.initialized = TRUE, !.promise = None, !.callers[c].pc = "op"]
    ELSE [g EXCEPT !.promise = None, !.callers[c].pc = "failed"]

(* a caller that was returned the promise, after its await *)
WaiterResumed(g, c) ==
    IF g.attempts[g.callers[c].attempt] = "resolved"
    THEN [g EXCEPT !.callers[c].pc = "op"]
    ELSE [g EXCEPT !.callers[c].pc = "failed"]

InitGuard ==
    /\ MgrInit
    /\ calls = NoCalls
    /\ worker = WorkerIdle
    /\ codec = NoCodec
    /\ azure = NoAzure
    /\ file = NoFile
    /\ disk = NoDisk
    /\ query = NoQuery
    /\ parser = NoParser
    /\ guard \in {GuardOf(b) : b \in Backends}

GuardFrame ==
    UNCHANGED <<cachedFeeds, cachedItems, cachedFeedsTimestamp, feedsTable, itemsTable,
                feedCount, itemCount, now, addFeedResults, calls, worker, codec,
                azure, file, disk, query, parser>>

(* a storage operation is called: its await of createTable / ensureLoaded *)
CallStorage ==
    \E c \in Callers :
        /\ guard.callers[c].pc = "idle"
        /\ Len(EnsureEntered(guard, c).attempts) <= MaxAttempts
        /\ guard' = EnsureEntered(guard, c)
        /\ UNCHANGED last
        /\ GuardFrame

(* the attempt in flight completes: the table is created or the document   *)
(* loaded, or the attempt fails                                            *)
SettleAttempt ==
    \E k \in DOMAIN guard.attempts, status \in {"resolved", "rejected"} :
        /\ guard.attempts[k] = "pending"
        /\ guard' = [guard EXCEPT !.attempts[k] = status]
        /\ UNCHANGED last
        /\ GuardFrame

ResumeStarter ==
    \E c \in Callers :
        /\ guard.callers[c].pc = "starter"
        /\ guard.attempts[guard.callers[c].attempt] # "pending"
        /\ guard' = StarterResumed(guard, c)
        /\ UNCHANGED last
        /\ GuardFrame

(* the reactions to a promise run in the order of their registration: the  *)
(* starter of an attempt resumes before the callers that joined it         *)
ResumeWaiter ==
    \E c \in Callers :
        /\ guard.callers[c].pc = "waiter"
        /\ guard.attempts[guard.callers[c].attempt] # "pending"
        /\ \A s \in Callers : ~(/\ guard.callers[s].pc = "starter"
                                /\ guard.callers[s].attempt = guard.callers[c].attempt)
        /\ guard' = WaiterResumed(guard, c)
        /\ UNCHANGED last
        /\ GuardFrame

(* the storage operation runs on the store and returns, or the error of    *)
(* the attempt is raised to the caller                                     *)
ReturnFromStorage ==
    \E c \in Callers :
        /\ guard.callers[c].pc \in {"op", "failed"}
        /\ guard' = [guard EXCEPT !.callers[c] = [pc |-> "idle", attempt |-> 0]]
        /\ last' = [op |-> "storage", arg |-> guard.callers[c].attempt,
                    outcome |-> IF guard.callers[c].pc = "op" THEN "ok" ELSE "raised"]
        /\ GuardFrame

NextGuard ==
    \/ CallStorage
    \/ SettleAttempt
    \/ ResumeStarter
    \/ ResumeWaiter
    \/ ReturnFromStorage

SpecGuard == InitGuard /\ [][NextGuard]_vars

Pending == {k \in DOMAIN guard.attempts : guard.attempts[k] = "pending"}
Rejected == {k \in DOMAIN guard.attempts : guard.attempts[k] = "rejected"}
Resolved == {k \in DOMAIN guard.attempts : guard.attempts[k] = "resolved"}
AtAwait(k) == {c \in Callers : /\ guard.callers[c].pc \in {"starter", "waiter"}
                               /\ guard.callers[c].attempt = k}

(* C15: as long as no attempt has failed, at most one initialization has   *)
(* been started; at any time at most one is in flight, and the callers at  *)
(* their await all await it; a caller is in its storage operation only     *)
(* when the attempt it awaited has succeeded.                              *)
C15_SingleFlightInit ==
    /\ Rejected = {} => Len(guard.attempts) <= 1
    /\ Cardinality(Pending) <= 1
    /\ \A k \in Pending : k = Len(guard.attempts) /\ guard.promise = Some(k)
    /\ \A c \in Callers :
           guard.callers[c].pc = "op" =>
               IF guard.callers[c].attempt = 0 THEN guard.initialized /\ Resolved # {}
               ELSE guard.attempts[guard.callers[c].attempt] = "resolved"

C15_Witness ==
    /\ Len(guard.attempts) = 1
    /\ \E c, d \in Callers :
           /\ guard.callers[c] = [pc |-> "op", attempt |-> 1]
           /\ guard.callers[d] = [pc |-> "waiter", attempt |-> 1]

(* C16: a caller whose attempt failed gets the failure; when a failed      *)
(* attempt has been handled the guard is "not initialized, no attempt in   *)
(* flight" and the next call starts a new attempt; no attempt is started   *)
(* after one that succeeded.                                               *)
C16_FailedInitRetried ==
    /\ \A c \in Callers :
           guard.callers[c].pc = "failed" =>
               guard.attempts[guard.callers[c].attempt] = "rejected"
    /\ \A k \in Rejected :
           (\A c \in AtAwait(k) : guard.callers[c].pc # "starter") =>
               /\ k = Len(guard.attempts) =>
                      /\ ~guard.initialized
                      /\ guard.promise = None
                      /\ \A c \in Callers :
                             EnsureEntered(guard, c).callers[c] =
                                 [pc |-> "starter", attempt |-> k + 1]
               /\ \A c \in AtAwait(k) : WaiterResumed(guard, c).callers[c].pc = "failed"
    /\ \A k \in Resolved : k = Len(guard.attempts)

C16_Witness ==
    /\ guard.attempts = <<"rejected", "resolved">>
    /\ \E c, d \in Callers :
           /\ guard.callers[c] = [pc |-> "failed", attempt |-> 1]
           /\ guard.callers[d] = [pc |-> "op", attempt |-> 2]

---------------------------------------------------------------------------
(* The local backend, step by step.  file.writers[c] is the position of    *)
(* caller c in writeToDisk: "idle"; at the await of ensureDirectory        *)
(* ("mkdir"); at the await of fs.writeFile, which writes the document to   *)
(* the temp path block by block ("writeFile"); at the await of fs.rename   *)
(* ("rename").  The process may end at any step; the files stay.           *)

FileObjects == {SizedObject(id, n) : id \in {97, 98}, n \in {0, 1}}

FileFrame ==
    UNCHANGED <<cachedFeeds, cachedItems, cachedFeedsTimestamp, feedsTable, itemsTable,
                feedCount, itemCount, now, addFeedResults, calls, worker, codec,
                azure, guard, query, parser>>

(* writeToDisk has ended without the finally block *)
WriteEndedNoFinally(f, c, failed) ==
    [f EXCEPT !.isWriting = failed, !.writers[c] = [pc |-> "idle", content |-> <<>>]]

(* writeToDisk has ended, with success or with an error: finally *)
WriteEnded(f, c, failed) ==
    [f EXCEPT !.isWriting = FALSE, !.writers[c] = [pc |-> "idle", content |-> <<>>]]

(* the first storage call of a process: ensureLoaded runs loadFromDisk *)
FileLoad ==
    LET r == LoadFromDisk(disk)
    IN  /\ ~file.fileLoaded
        /\ file' = IF r.err THEN file
                   ELSE [file EXCEPT !.fileLoaded = TRUE, !.dataStore = r.entities]
        /\ last' = Done("file.load", <<>>, r)
        /\ UNCHANGED disk
        /\ FileFrame

(* writeObject: the entity is put in the store; writeToDisk returns at     *)
(* once when a write is in flight, else sets the flag and awaits           *)
(* ensureDirectory                                                         *)
FileCallWrite ==
    \E c \in Callers, data \in FileObjects :
        LET r == FileWriteObject(file.dataStore, data, FEED_PARTITION, now)
        IN  /\ file.fileLoaded
            /\ file.writers[c].pc = "idle"
            /\ IF file.isWriting
               THEN /\ file' = [file EXCEPT !.dataStore = r.entities]
                    /\ last' = [op |-> "file.writeObject", arg |-> data,
                                outcome |-> "not written"]
               ELSE /\ file' = [file EXCEPT !.dataStore = r.entities,
                                            !.isWriting = TRUE,
                                            !.writers[c].pc = "mkdir"]
                    /\ UNCHANGED last
            /\ UNCHANGED disk
            /\ FileFrame

(* ensureDirectory has returned: JSON.stringify(this.dataStore), and       *)
(* fs.writeFile opens the temp path and truncates it                       *)
FileWriteStarts ==
    \E c \in Callers :
        /\ file.writers[c].pc = "mkdir"
        /\ file' = [file EXCEPT !.writers[c] = [pc |-> "writeFile",
                                                content |-> Document(file.dataStore)]]
        /\ disk' = [disk EXCEPT ![TempFilePath] = Some(<<>>)]
        /\ UNCHANGED last
        /\ FileFrame

(* fs.writeFile writes the next block; after the last one it returns *)
FileWriteBlock ==
    \E c \in Callers :
        LET content == file.writers[c].content
            written == Len(disk[TempFilePath][1])
        IN  /\ file.writers[c].pc = "writeFile"
            /\ disk' = [disk EXCEPT ![TempFilePath] =
                                        Some(SubSeq(content, 1, written + 1))]
            /\ file' = IF written + 1 = Len(content)
                       THEN [file EXCEPT !.writers[c].pc = "rename"]
                       ELSE file
            /\ UNCHANGED last
            /\ FileFrame

(* fs.rename has moved the temp file to the real path; writeToDisk returns *)
FileRename ==
    \E c \in Callers :
        /\ file.writers[c].pc = "rename"
        /\ disk' = Rename(disk, TempFilePath, DataFilePath)
        /\ file' = WriteEnded(file, c, FALSE)
        /\ last' = [op |-> "file.writeObject", arg |-> <<>>, outcome |-> "ok"]
        /\ FileFrame

(* ensureDirectory, fs.writeFile or fs.rename raises: catch, finally *)
FileWriteFails ==
    \E c \in Callers :
        /\ file.writers[c].pc \in {"mkdir", "writeFile", "rename"}
        /\ file' = WriteEnded(file, c, TRUE)
        /\ last' = [op |-> "file.writeObject", arg |-> <<>>, outcome |-> "raised"]
        /\ UNCHANGED disk
        /\ FileFrame

(* the process ends; the next one starts with a new instance *)
Crash ==
    /\ file # NoFile
    /\ file' = NoFile
    /\ last' = [op |-> "crash", arg |-> <<>>, outcome |-> "ok"]
    /\ UNCHANGED disk
    /\ FileFrame

NextFile ==
    \/ FileLoad
    \/ FileCallWrite
    \/ FileWriteStarts
    \/ FileWriteBlock
    \/ FileRename
    \/ FileWriteFails
    \/ Crash

SpecFile == Init /\ [][NextFile]_vars

Writing == {c \in Callers : file.writers[c].pc # "idle"}
Complete(f) == f # None /\ ParseDocument(f[1]) # None

(* C14: the file at the real path is at every instant a complete document; *)
(* a step changes it only by putting there the complete document of the    *)
(* temp path, which is the document of the write in flight; whatever the   *)
(* step at which the process ended, the next load reads the document of    *)
(* the real path.                                                          *)
C14_RealPathAtomic ==
    /\ [](disk.real # None => Complete(disk.real))
    /\ [][/\ disk'.real # disk.real =>
                 /\ Complete(disk.temp)
                 /\ disk'.real = disk.temp
                 /\ \E c \in Callers : /\ file.writers[c].pc = "rename"
                                       /\ disk.temp = Some(file.writers[c].content)
          /\ (~file.fileLoaded /\ file'.fileLoaded) =>
                 /\ disk' = disk
                 /\ file'.dataStore = StoredOnDisk]_vars

C14_Witness ==
    /\ last.op = "file.load"
    /\ file.fileLoaded
    /\ Complete(disk.temp)
    /\ disk.real # None
    /\ disk.temp # disk.real
    /\ file.dataStore = StoredOnDisk

(* C17: a write requested while one is in flight returns without writing,  *)
(* without raising and without a place in any queue; at most one caller is *)
(* in writeToDisk; the flag is set exactly while a caller is in it.        *)
C17_OneWriteInFlight ==
    /\ [](Cardinality(Writing) <= 1)
    /\ [](file.isWriting <=> Writing # {})
    /\ [][(FileCallWrite /\ file.isWriting) =>
              /\ disk' = disk
              /\ file'.writers = file.writers
              /\ last'.outcome = "not written"]_vars

C17_Witness ==
    /\ last.op = "file.writeObject"
    /\ last.outcome = "not written"
    /\ file.isWriting
    /\ \E c \in Callers : file.writers[c].pc = "writeFile"

---------------------------------------------------------------------------
(* Filters.  A filter is a string, the sequence of its character codes.    *)
(* applyFilter of the local backend matches it against two regular         *)
(* expressions, unanchored and case-insensitive:                           *)
(*     /extra_(\w+)\s+(\w+)\s+([0-9]+)L/i    /extra_(\w+)\s+eq\s+'([^']+)/i *)
(* The classes \w, \s, [0-9] and [^'] of these expressions are each        *)
(* followed by a character outside the class, so a match takes the longest *)
(* run of each.                                                            *)

IsWordChar(c) == c \in 48..57 \/ c \in 65..90 \/ c \in 97..122 \/ c = 95
IsSpaceChar(c) == c \in {9, 10, 13, 32}

RECURSIVE WordEnd(_, _)
WordEnd(s, i) == IF i <= Len(s) /\ IsWordChar(s[i]) THEN WordEnd(s, i + 1) ELSE i

RECURSIVE SpaceEnd(_, _)
SpaceEnd(s, i) == IF i <= Len(s) /\ IsSpaceChar(s[i]) THEN SpaceEnd(s, i + 1) ELSE i

RECURSIVE DigitEnd(_, _)
DigitEnd(s, i) == IF i <= Len(s) /\ IsDigit(s[i]) THEN DigitEnd(s, i + 1) ELSE i

RECURSIVE NonQuoteEnd(_, _)
NonQuoteEnd(s, i) == IF i <= Len(s) /\ s[i] # 39 THEN NonQuoteEnd(s, i + 1) ELSE i

(* the literal lit, in lower case, is at position i of s in any case *)
LiteralAt(s, i, lit) ==
    /\ i + Len(lit) - 1 <= Len(s)
    /\ ToLowerCase(SubSeq(s, i, i + Len(lit) - 1)) = lit

ExtraPrefix == <<101, 120, 116, 114, 97, 95>>
OpChars == [eq |-> <<101, 113>>, ge |-> <<103, 101>>, gt |-> <<103, 116>>,
            le |-> <<108, 101>>, lt |-> <<108, 116>>, ne |-> <<110, 101>>]

NoMatch == [ok |-> FALSE, property |-> <<>>, op |-> <<>>, value |-> <<>>, end |-> 0]

(* a match of the first expression that starts at position p *)
NumberMatchAt(s, p) ==
    LET a == p + Len(ExtraPrefix)
        b == WordEnd(s, a)
        c == SpaceEnd(s, b)
        d == WordEnd(s, c)
        e == SpaceEnd(s, d)
        f == DigitEnd(s, e)
    IN  IF /\ LiteralAt(s, p, ExtraPrefix)
           /\ b > a /\ c > b /\ d > c /\ e > d /\ f > e
           /\ LiteralAt(s, f, <<108>>)
        THEN [ok |-> TRUE, property |-> SubSeq(s, a, b - 1), op |-> SubSeq(s, c, d - 1),
              value |-> Num(ParseDigits(s, e, 0).val), end |-> f + 1]
        ELSE NoMatch

(* a match of the second expression that starts at position p *)
StringMatchAt(s, p) ==
    LET a == p + Len(ExtraPrefix)
        b == WordEnd(s, a)
        c == SpaceEnd(s, b)
        d == SpaceEnd(s, c + 2)
        e == NonQuoteEnd(s, d + 1)
    IN  IF /\ LiteralAt(s, p, ExtraPrefix)
           /\ b > a /\ c > b
           /\ LiteralAt(s, c, OpChars.eq)
           /\ d > c + 2
           /\ LiteralAt(s, d, <<39>>)
           /\ e > d + 1
        THEN [ok |-> TRUE, property |-> SubSeq(s, a, b - 1), op |-> OpChars.eq,
              value |-> Str(SubSeq(s, d + 1, e - 1)), end |-> e]
        ELSE NoMatch

(* String.prototype.match: the leftmost match *)
RECURSIVE NumberMatch(_, _)
NumberMatch(s, p) ==
    IF p > Len(s) THEN NoMatch
    ELSE IF NumberMatchAt(s, p).ok THEN NumberMatchAt(s, p)
    ELSE NumberMatch(s, p + 1)

RECURSIVE StringMatch(_, _)
StringMatch(s, p) ==
    IF p > Len(s) THEN NoMatch
    ELSE IF StringMatchAt(s, p).ok THEN StringMatchAt(s, p)
    ELSE StringMatch(s, p + 1)

(* the comparison of a property value to the value of the filter; a value  *)
(* of another type, or no value, satisfies none                            *)
Compares(value, op, other) ==
    /\ value # None
    /\ value[1].t = other.t
    /\ IF other.t = "number"
       THEN \/ op = OpChars.eq /\ value[1].v[1] = other.v[1]
            \/ op = OpChars.ge /\ value[1].v[1] >= other.v[1]
            \/ op = OpChars.gt /\ value[1].v[1] > other.v[1]
            \/ op = OpChars.le /\ value[1].v[1] <= other.v[1]
            \/ op = OpChars.lt /\ value[1].v[1] < other.v[1]
       ELSE op = OpChars.eq /\ value[1].v = other.v

(* FileTableReadWriter.applyFilter *)
ApplyFilter(entities, filter) ==
    IF NumberMatch(filter, 1).ok
    THEN SelectSeq(entities, LAMBDA entity :
             Compares(PropertyOf(entity.data, NumberMatch(filter, 1).property),
                      NumberMatch(filter, 1).op, NumberMatch(filter, 1).value))
    ELSE IF StringMatch(filter, 1).ok
    THEN SelectSeq(entities, LAMBDA entity :
             Compares(PropertyOf(entity.data, StringMatch(filter, 1).property),
                      OpChars.eq, StringMatch(filter, 1).value))
    ELSE <<>>

(* filter && filter.trim() *)
IsBlank(filter) == \A i \in DOMAIN filter : IsSpaceChar(filter[i])

(* FileTableReadWriter.queryObjects with a partition, without top and skip: *)
(* the data of the entities, the latest timestamp first                    *)
FileQueryObjects(entities, filter, partition) ==
    LET ofPartition == SelectSeq(entities, LAMBDA entity : entity.partition = partition)
        filtered == IF IsBlank(filter) THEN ofPartition ELSE ApplyFilter(ofPartition, filter)
        sorted == SortDesc([i \in DOMAIN filtered |->
                              [data |-> filtered[i].data,
                               publishedTime |-> filtered[i].timestamp]])
    IN  [i \in DOMAIN sorted |-> sorted[i].data]

(* the filters that the manager builds: `extra_<field> <op> <n>L` and       *)
(* `extra_<field> eq '<value>'`                                            *)
NumberFilter(field, op, n) ==
    ExtraPrefix \o field \o <<32>> \o OpChars[op] \o <<32>> \o Digits(n) \o <<76>>

StringFilter(field, value) ==
    ExtraPrefix \o field \o <<32>> \o OpChars.eq \o <<32, 39>> \o value \o <<39>>

NumberOps == {"eq", "ge", "gt", "le", "lt"}

(* the filter is, from its first character to its last, of one of the two  *)
(* forms of the filter language                                            *)
IsNumberFilter(filter) ==
    /\ NumberMatchAt(filter, 1).ok
    /\ \E op \in NumberOps :
           filter = NumberFilter(NumberMatchAt(filter, 1).property, op,
                                 NumberMatchAt(filter, 1).value.v[1])

IsStringFilter(filter) ==
    /\ StringMatchAt(filter, 1).ok
    /\ filter = StringFilter(StringMatchAt(filter, 1).property,
                             StringMatchAt(filter, 1).value.v)

(* the comparison that the table service evaluates, for a filter of one of *)
(* the two forms                                                           *)
Comparison(filter) ==
    IF IsNumberFilter(filter) THEN NumberMatchAt(filter, 1) ELSE StringMatchAt(filter, 1)

(* AzureTableReadWriter.queryObjects with a partition, without top and     *)
(* skip: the service lists the entities of the partition whose extra_      *)
(* property satisfies the comparison (an entity without the property       *)
(* satisfies none), and refuses a filter of another form; the entities     *)
(* listed are decoded, the ones that decode to nothing left out            *)
AzureQueryObjects(table, filter, partition) ==
    LET ofPartition == {e \in table : e.partitionKey = partition}
        listed == IF IsBlank(filter) THEN ofPartition
                  ELSE {e \in ofPartition :
                           Compares(PropertyOf(e.extra, Comparison(filter).property),
                                    Comparison(filter).op, Comparison(filter).value)}
    IN  IF ~IsBlank(filter) /\ ~IsNumberFilter(filter) /\ ~IsStringFilter(filter)
        THEN [err |-> TRUE, objects |-> {}]
        ELSE [err |-> FALSE,
              objects |-> {DeserializeObject(e)[1] :
                              e \in {x \in listed : DeserializeObject(x) # None}}]

---------------------------------------------------------------------------
(* Queries on the two backends holding the same items.  An item has an id, *)
(* a title and a publishedTime; parseDate gives the publishedTime 0 to an  *)
(* entry without a date.                                                   *)

QueryItem(id, title, publishedTime) ==
    <<[k |-> KeyId, v |-> Str(<<id>>)], [k |-> KeyTitle, v |-> Str(<<title>>)],
      [k |-> KeyPublishedTime, v |-> Num(publishedTime)]>>

QueryPartition == "p"
OtherPartition == "q"

QueryWrites ==
    {[data |-> QueryItem(97, 97, publishedTime), partition |-> QueryPartition] :
        publishedTime \in {0, 5, 9}}
    \cup {[data |-> QueryItem(98, 98, 5), partition |-> QueryPartition],
          [data |-> QueryItem(99, 97, 5), partition |-> OtherPartition]}

Filters ==
    {NumberFilter(KeyPublishedTime, op, n) : op \in NumberOps, n \in {0, 5}}
    \cup {StringFilter(KeyTitle, <<97>>),
          <<>>, <<32>>, <<120>>,
          NumberFilter(KeyPublishedTime, "ne", 5),
          NumberFilter(KeyPublishedTime, "ge", 5) \o <<32, 97, 110, 100, 32>>
              \o NumberFilter(KeyPublishedTime, "le", 5),
          ExtraPrefix \o KeyTitle \o <<32>> \o OpChars.eq \o <<32, 39, 97>>}

QueryFrame ==
    UNCHANGED <<cachedFeeds, cachedItems, cachedFeedsTimestamp, feedsTable, itemsTable,
                feedCount, itemCount, now, addFeedResults, calls, worker, codec, guard,
                parser>>

(* the items stored in the partition of the queries *)
StoredInPartition ==
    {file.dataStore[i].data :
        i \in {j \in DOMAIN file.dataStore : file.dataStore[j].partition = QueryPartition}}

(* writeObject of the same item on both backends; the result of the last  *)
(* query is of the items stored before, and is dropped                     *)
DoStore ==
    \E w \in QueryWrites :
        LET a == AzureWriteObject(azure.table, w.data, w.partition, ITEM_EXTRA_PROPS)
            f == FileWriteObject(file.dataStore, w.data, w.partition, now)
        IN  /\ azure' = [azure EXCEPT !.table = a.table]
            /\ file' = [file EXCEPT !.fileLoaded = TRUE, !.dataStore = f.entities]
            /\ disk' = [disk EXCEPT !.real = Some(Document(f.entities))]
            /\ last' = Done("writeObject", w.data, a)
            /\ query' = None
            /\ QueryFrame

(* queryObjects with the same filter on both backends *)
DoQuery ==
    \E filter \in Filters :
        /\ query' = Some([filter |-> filter,
                          file |-> FileQueryObjects(file.dataStore, filter, QueryPartition),
                          azure |-> AzureQueryObjects(azure.table, filter, QueryPartition)])
        /\ last' = [op |-> "queryObjects", arg |-> filter, outcome |-> "ok"]
        /\ UNCHANGED <<azure, file, disk>>
        /\ QueryFrame

NextQuery ==
    \/ DoStore
    \/ DoQuery

SpecQuery == Init /\ [][NextQuery]_vars

Holds(x, op, n) ==
    IF op = "eq" THEN x = n
    ELSE IF op = "ge" THEN x >= n
    ELSE IF op = "gt" THEN x > n
    ELSE IF op = "le" THEN x <= n
    ELSE x < n

Range(s) == {s[i] : i \in DOMAIN s}

(* C18: for a filter extra_publishedTime <op> <n>L, the local and the      *)
(* remote backend both return exactly the items of the partition whose     *)
(* publishedTime satisfies the comparison, the value 0 included.           *)
C18_NumberFilterOnBothBackends ==
    \A op \in NumberOps, n \in {0, 5} :
        (query # None /\ query[1].filter = NumberFilter(KeyPublishedTime, op, n)) =>
            LET expected == {data \in StoredInPartition :
                                Holds(PropertyOf(data, KeyPublishedTime)[1].v[1], op, n)}
            IN  /\ Range(query[1].file) = expected
                /\ ~query[1].azure.err
                /\ query[1].azure.objects = expected

(* the same for the items with a publishedTime other than 0 *)
NumberFilterOnNonZero ==
    \A op \in NumberOps, n \in {0, 5} :
        (query # None /\ query[1].filter = NumberFilter(KeyPublishedTime, op, n)) =>
            LET expected == {data \in StoredInPartition :
                                Holds(PropertyOf(data, KeyPublishedTime)[1].v[1], op, n)}
                nonZero == {data \in StoredInPartition :
                               PropertyOf(data, KeyPublishedTime)[1].v[1] # 0}
            IN  /\ Range(query[1].file) = expected
                /\ ~query[1].azure.err
                /\ query[1].azure.objects = expected \cap nonZero

(* C19: on the local backend a query with a blank filter returns every     *)
(* entity of the partition, and a query with a filter that is not blank    *)
(* and of neither form of the filter language returns nothing.             *)
C19_LocalFilterShapes ==
    query # None =>
        /\ IsBlank(query[1].filter) => Range(query[1].file) = StoredInPartition
        /\ (/\ ~IsBlank(query[1].filter)
            /\ ~IsNumberFilter(query[1].filter)
            /\ ~IsStringFilter(query[1].filter)) => query[1].file = <<>>

(* the part of C19 that is about a filter in which neither form occurs *)
FilterWithoutFormReturnsNothing ==
    (/\ query # None
     /\ ~IsBlank(query[1].filter)
     /\ ~NumberMatch(query[1].filter, 1).ok
     /\ ~StringMatch(query[1].filter, 1).ok) => query[1].file = <<>>

(* the part of C19 that is about the blank filter *)
BlankFilterReturnsPartition ==
    (query # None /\ IsBlank(query[1].filter)) =>
        /\ Range(query[1].file) = StoredInPartition
        /\ Len(query[1].file) = Cardinality(StoredInPartition)

---------------------------------------------------------------------------
(* The read operations of the manager on the local backend, the document   *)
(* of the feeds store being as earlier runs or other programs left it:     *)
(* written to its end, cut short, or not there.  feedsTable is the store   *)
(* of the feeds backend once it is loaded; the document of the items store *)
(* is not there.                                                           *)

RECURSIVE StoredFeeds(_)
StoredFeeds(n) ==
    IF n = 0 THEN <<>>
    ELSE WriteObject(StoredFeeds(n - 1), CreateFeed(<<120>>, n), FEED_PARTITION)

ReadOps == {"getFeeds", "getItemsFromFeed", "getRecentItems"}

LoadFrame ==
    UNCHANGED <<now, addFeedResults, calls, worker, codec, azure, guard, query, parser>>

DocumentWritten ==
    \E n \in 0..MaxFeeds :
        /\ disk.real # Some(Document(StoredFeeds(n)))
        /\ disk' = [disk EXCEPT !.real = Some(Document(StoredFeeds(n)))]
        /\ last' = [op |-> "document written", arg |-> n, outcome |-> "ok"]
        /\ UNCHANGED <<cachedFeeds, cachedItems, cachedFeedsTimestamp, feedsTable, itemsTable,
                      feedCount, itemCount, file>>
        /\ LoadFrame

DocumentCut ==
    /\ disk.real # None
    /\ \E n \in 0..(Len(disk.real[1]) - 1) :
           disk' = [disk EXCEPT !.real = Some(SubSeq(disk.real[1], 1, n))]
    /\ last' = [op |-> "document cut", arg |-> <<>>, outcome |-> "ok"]
    /\ UNCHANGED <<cachedFeeds, cachedItems, cachedFeedsTimestamp, feedsTable, itemsTable,
                      feedCount, itemCount, file>>
    /\ LoadFrame

DocumentRemoved ==
    /\ disk.real # None
    /\ disk' = [disk EXCEPT !.real = None]
    /\ last' = [op |-> "document removed", arg |-> <<>>, outcome |-> "ok"]
    /\ UNCHANGED <<cachedFeeds, cachedItems, cachedFeedsTimestamp, feedsTable, itemsTable,
                      feedCount, itemCount, file>>
    /\ LoadFrame

(* a new process: the manager and its backends are constructed *)
ProcessStarts ==
    /\ file.fileLoaded
    /\ file' = NoFile
    /\ Commit([Cur EXCEPT !.cf = <<>>, !.ci = <<>>, !.ts = 0, !.ft = <<>>])
    /\ last' = [op |-> "process starts", arg |-> <<>>, outcome |-> "ok"]
    /\ UNCHANGED disk
    /\ LoadFrame

(* ensureLoaded of the feeds backend, at the storage call of a read: the   *)
(* store that the call reads, or an error                                  *)
EnsureLoaded(f, table, d) ==
    IF f.fileLoaded THEN [err |-> FALSE, entities |-> table] ELSE LoadFromDisk(d)

(* the storage call of a read raising when ensureLoaded does *)
LoadFault(l, fault) == IF l.err THEN fault ELSE "none"

(* the manager state with the store as ensureLoaded leaves it *)
WithStore(s, l) == [s EXCEPT !.ft = l.entities]

(* what a read leaves: the state of the manager, and the backend loaded if *)
(* the read came to its storage call and ensureLoaded did not raise        *)
ReadDone(op, arg, r, l, reached) ==
    /\ Commit(r.s)
    /\ file' = IF reached /\ ~l.err THEN [file EXCEPT !.fileLoaded = TRUE] ELSE file
    /\ last' = Done(op, arg, r)
    /\ UNCHANGED disk
    /\ LoadFrame

LoadGetFeeds ==
    LET l == EnsureLoaded(file, feedsTable, disk)
    IN  ReadDone("getFeeds", <<>>,
                 GetFeeds(WithStore(Cur, l), 0, 0, now, LoadFault(l, "feeds.getAll")),
                 l, ~SnapshotValid(Cur, now))

LoadGetItemsFromFeed ==
    \E id \in {FeedUuid(n) : n \in 1..MaxFeeds} :
        LET l == EnsureLoaded(file, feedsTable, disk)
        IN  ReadDone("getItemsFromFeed", id,
                     GetItemsFromFeed(WithStore(Cur, l), id, 0, 0, 0,
                                      LoadFault(l, "feeds.get")),
                     l, \A i \in DOMAIN cachedFeeds : cachedFeeds[i].id # id)

LoadGetRecentItems ==
    LET l == EnsureLoaded(file, feedsTable, disk)
    IN  ReadDone("getRecentItems", <<>>,
                 GetRecentItems(WithStore(Cur, l), MinutesPerDay, 0, 0, now,
                                LoadFault(l, "feeds.getAll")),
                 l, ~SnapshotValid(Cur, now))

NextLoad ==
    \/ DocumentWritten
    \/ DocumentCut
    \/ DocumentRemoved
    \/ ProcessStarts
    \/ LoadGetFeeds
    \/ LoadGetItemsFromFeed
    \/ LoadGetRecentItems

SpecLoad == Init /\ [][NextLoad]_vars

(* C20: a read operation of the manager returns a result and does not      *)
(* raise, whatever the state of the persisted data: a document of the      *)
(* local store that is not there or cannot be parsed gives empty results.  *)
C20_ReadsNeverRaise ==
    last.op \in ReadOps => last.outcome = "ok"

(* a read raises only when the document of the feeds store is there and    *)
(* cannot be parsed, and getItemsFromFeed does not raise then either       *)
ReadsRaiseOnlyOnUnparseable ==
    (last.op \in ReadOps /\ last.outcome = "raised") =>
        /\ disk.real # None
        /\ LoadFromDisk(disk).err
        /\ ~file.fileLoaded
        /\ last.op # "getItemsFromFeed"

(* a new process reading a store whose document is not there has no feeds *)
MissingDocumentIsEmptyStore ==
    (last.op \in ReadOps /\ disk.real = None /\ last.outcome = "ok" /\ cachedFeedsTimestamp = 0) =>
        cachedFeeds = <<>>

---------------------------------------------------------------------------
(* The lookups of one feed, getFeed and getFeedFromUrl, with the storage   *)
(* call of the lookup raising or not.  `last` keeps the fault, the value   *)
(* returned and the feed cache that the call found.                        *)

LookupDone(op, arg, r, fault) ==
    [op |-> op, arg |-> arg, outcome |-> IF r.err THEN "raised" ELSE "ok",
     fault |-> fault, ret |-> r.ret, before |-> cachedFeeds]

GetFeedUnderFault ==
    \E id \in KnownIds, fault \in {"none", "feeds.get"} :
        LET r == GetFeed(Cur, id, fault)
        IN  /\ Commit(r.s)
            /\ last' = LookupDone("getFeed", id, r, fault)
            /\ UNCHANGED <<now, addFeedResults, envVars>>

GetFeedFromUrlUnderFault ==
    \E feedUrl \in Urls, fault \in {"none", "feeds.query"} :
        LET r == GetFeedFromUrl(Cur, feedUrl, fault)
        IN  /\ Commit(r.s)
            /\ last' = LookupDone("getFeedFromUrl", feedUrl, r, fault)
            /\ UNCHANGED <<now, addFeedResults, envVars>>

NextLookup ==
    \/ DoAddFeed(Urls, {None, Some(<<>>)}, NoSummaries, {"none"})
    \/ GetFeedUnderFault
    \/ GetFeedFromUrlUnderFault
    \/ Restart

SpecLookup == Init /\ [][NextLookup]_vars

(* the call found the feed it asks for in the cache *)
LookupHit ==
    \/ last.op = "getFeed" /\ \E i \in DOMAIN last.before : last.before[i].id = last.arg
    \/ last.op = "getFeedFromUrl"
       /\ \E i \in DOMAIN last.before : last.before[i].feedUrl = last.arg

(* C21: getFeed and getFeedFromUrl do not raise; when the storage call of  *)
(* a cache miss raises, the call returns none and leaves the feed cache as *)
(* it was.                                                                 *)
C21_LookupNeverRaises ==
    last.op \in {"getFeed", "getFeedFromUrl"} =>
        /\ last.outcome = "ok"
        /\ (last.fault # "none" /\ ~LookupHit) =>
               (last.ret = None /\ cachedFeeds = last.before)

(* getFeedFromUrl missed the cache for a URL whose feed is stored, and the *)
(* query raised                                                            *)
C21_Witness ==
    /\ last.op = "getFeedFromUrl"
    /\ last.fault = "feeds.query"
    /\ ~LookupHit
    /\ \E i \in DOMAIN feedsTable : feedsTable[i].data.feedUrl = last.arg
    /\ last.ret = None

---------------------------------------------------------------------------
(* Summarization over the refreshes of one feed, with the passage of time. *)
(* The documents hold no entry, or one entry: one that is inside the       *)
(* retention window at the start and outside after two steps of the clock, *)
(* or an older one with another identity key; each call of generateSummary *)
(* gives a result or fails.  `last` keeps the ids of    *)
(* the items that the refresh passed to generateSummary and of the items   *)
(* returned, and the item table and item cache that the refresh found.     *)

(* processingItems of refreshFeed, from currentFeedItems *)
ProcessingItems(items, currentFeedItems, ic) ==
    WithIds(NewItems(items, currentFeedItems), ic) \o RetryItems(currentFeedItems)

(* currentFeedItems of refreshFeed: getItemsFromFeed after the fetch has   *)
(* set the times of the cached Feed                                        *)
CurrentFetched(s, f, fault) ==
    GetItemsFromFeed([s EXCEPT !.cf = CacheSet(@, f.feed)], f.feed.id, 0, 0, 0, fault)

CurrentFound(g, fetch, fault) ==
    IF g.ret = None \/ fetch = None THEN <<>>
    ELSE CurrentFetched(g.s, FetchItemsAndUpdateFeed(g.ret[1], fetch[1]), fault).ret

CurrentOf(s, id, fetch, fault) == CurrentFound(GetFeed(s, id, fault), fetch, fault)

(* processingItems of refreshFeed, from the result of getItemsFromFeed *)
ProcessingCurrent(q, f) ==
    IF q.err THEN <<>> ELSE ProcessingItems(f.items, q.ret, q.s.ic)

(* processingItems of refreshFeed, from the result of the fetch *)
ProcessingFetched(s, f, fault) == ProcessingCurrent(CurrentFetched(s, f, fault), f)

(* processingItems of refreshFeed, from the result of getFeed *)
ProcessingFound(g, fetch, fault) ==
    IF g.ret = None \/ fetch = None THEN <<>>
    ELSE ProcessingFetched(g.s, FetchItemsAndUpdateFeed(g.ret[1], fetch[1]), fault)

(* the items that refreshFeed passes to generateSummary *)
ProcessingOf(s, id, fetch, fault) == ProcessingFound(GetFeed(s, id, fault), fetch, fault)

IdsOf(items) == {items[i].id : i \in DOMAIN items}

RecentEntry == [guid |-> "g", link |-> "l", publishedTime |-> StartTime - MinutesPerDay]
OlderEntry == [guid |-> NoGuid, link |-> "l", publishedTime |-> StartTime - 6 * MinutesPerDay]
SummaryFetches == {None, Some(<<>>), Some(<<RecentEntry>>), Some(<<OlderEntry>>)}
SummaryOutcomes == {{}, 1..(MaxDocLen + MaxItems)}

RefreshOutcome(s, id, fetch, r) ==
    IF GetFeed(s, id, "none").ret = None THEN "no feed"
    ELSE IF fetch = None THEN "fetch failed"
    ELSE IF r.err THEN "raised" ELSE "ok"

RefreshSummarizing ==
    \E id \in KnownIds, fetch \in SummaryFetches, llm \in SummaryOutcomes :
        LET r == RefreshFeed(Cur, id, fetch, llm, "none", now)
        IN  /\ Commit(r.s)
            /\ last' = [op |-> "refreshFeed", arg |-> id,
                        outcome |-> RefreshOutcome(Cur, id, fetch, r),
                        passed |-> ProcessingOf(Cur, id, fetch, "none"),
                        current |-> CurrentOf(Cur, id, fetch, "none"),
                        ret |-> r.ret,
                        fetch |-> fetch,
                        llm |-> llm,
                        tableBefore |-> itemsTable,
                        cacheBefore |-> CachedItemsOf(cachedItems, id),
                        drawnBefore |-> itemCount]
            /\ UNCHANGED <<now, addFeedResults, envVars>>

NextSummary ==
    \/ DoAddFeed(OneUrl, {Some(<<>>)}, NoSummaries, {"none"})
    \/ RefreshSummarizing
    \/ Tick
    \/ Restart

SpecSummary == Init /\ [][NextSummary]_vars

Refreshed == last.op = "refreshFeed" /\ last.outcome = "ok"

(* the items of the feed that the item table held without a summary when   *)
(* the refresh began                                                       *)
UnsummarizedBefore ==
    {last.tableBefore[i].data.id :
        i \in {j \in DOMAIN last.tableBefore :
                  /\ last.tableBefore[j].pk = last.arg
                  /\ ~last.tableBefore[j].data.summary}}

(* the ids drawn before the refresh whose items the item table did not     *)
(* hold when the refresh began: no write fails here, so they are the items *)
(* that the retention step of an earlier refresh deleted                   *)
DeletedBefore ==
    {ItemUuid(n) : n \in 1..last.drawnBefore}
    \ {last.tableBefore[i].data.id : i \in DOMAIN last.tableBefore}

(* C22: an item whose summarization failed is stored without a summary and *)
(* is passed to summarization by every later refresh of its feed, until a  *)
(* summarization succeeds or retention deletes the item; an item that      *)
(* retention has deleted is not passed to summarization again.             *)
C22_RetryUntilExpiry ==
    Refreshed =>
        /\ UnsummarizedBefore \subseteq IdsOf(last.passed)
        /\ IdsOf(last.passed) \cap DeletedBefore = {}

(* the part of C22 that is about the items still stored *)
UnsummarizedAreRetried ==
    Refreshed => UnsummarizedBefore \subseteq IdsOf(last.passed)

(* an item passed to summarization whose call fails is stored without a    *)
(* summary, unless it is outside the retention window                      *)
FailedSummaryIsStored ==
    (Refreshed /\ last.llm = {}) =>
        \A i \in DOMAIN last.passed :
            \/ \E j \in DOMAIN itemsTable :
                   /\ itemsTable[j].data.id = last.passed[i].id
                   /\ ~itemsTable[j].data.summary
            \/ last.passed[i].id \in KeysToDelete(last.passed, now)

(* the Feed record of the feed refreshed last, as stored *)
RefreshedFeed ==
    LET at == {i \in DOMAIN feedsTable : feedsTable[i].data.id = last.arg}
    IN  feedsTable[CHOOSE i \in at : TRUE].data

(* the publishedTime of the items that the item table holds for the feed   *)
(* refreshed last                                                          *)
HeldTimes ==
    {itemsTable[i].data.publishedTime :
        i \in {j \in DOMAIN itemsTable : itemsTable[j].pk = last.arg}}

(* C23: after a refreshFeed that succeeds and yields at least one item,    *)
(* latestItemPublishedTime and firstItemPublishedTime of the Feed are the  *)
(* maximum and the minimum publishedTime over all the items held for the   *)
(* feed.                                                                   *)
C23_TimestampsOverHeldItems ==
    (Refreshed /\ Len(last.ret) > 0 /\ HeldTimes # {}) =>
        /\ RefreshedFeed.latestItemPublishedTime = Max(HeldTimes)
        /\ RefreshedFeed.firstItemPublishedTime = Min(HeldTimes)

(* after a refreshFeed that succeeds on a document with an entry, the      *)
(* timestamps of the Feed are the maximum and the minimum over the entries *)
(* of that document                                                        *)
TimestampsOverFetchedDocument ==
    (Refreshed /\ Len(last.fetch[1]) > 0) =>
        LET times == {last.fetch[1][i].publishedTime : i \in DOMAIN last.fetch[1]}
        IN  /\ RefreshedFeed.latestItemPublishedTime = Max(times)
            /\ RefreshedFeed.firstItemPublishedTime = Min(times)

(* the identity keys of a list of items, in order *)
KeysOf(items) == [i \in DOMAIN items |-> ItemKey(items[i])]

(* the entries of the fetched document whose identity key no item of       *)
(* currentFeedItems has                                                    *)
FetchedUnknown ==
    SelectSeq(last.fetch[1],
              LAMBDA e : \A i \in DOMAIN last.current : ItemKey(last.current[i]) # ItemKey(e))

(* the items of currentFeedItems that have no summary *)
CurrentUnsummarized == SelectSeq(last.current, LAMBDA item : ~item.summary)

(* the rows of the feed that the item table held with a summary when the   *)
(* refresh began                                                           *)
SummarizedBefore ==
    {last.tableBefore[i] :
        i \in {j \in DOMAIN last.tableBefore :
                  /\ last.tableBefore[j].pk = last.arg
                  /\ last.tableBefore[j].data.summary}}

(* C29: refreshFeed passes to summarization the fetched items whose        *)
(* identity key no item of the feed's current cache has, followed by the   *)
(* cached items without summary, and returns the former; an item stored    *)
(* with a summary is not passed to summarization, and its row is the same  *)
(* after the refresh unless retention deleted it.                          *)
C29_SummarizedOnce ==
    Refreshed =>
        /\ KeysOf(last.passed) = KeysOf(FetchedUnknown) \o KeysOf(CurrentUnsummarized)
        /\ KeysOf(last.ret) = KeysOf(FetchedUnknown)
        /\ \A row \in SummarizedBefore :
            /\ \A i \in DOMAIN last.passed :
                /\ last.passed[i].id # row.data.id
                /\ ItemKey(last.passed[i]) # ItemKey(row.data)
            /\ \/ \E j \in DOMAIN itemsTable : itemsTable[j] = row
               \/ row.data.id \in KeysToDelete(last.current, now)

(* a refresh that passed a new item to summarization while the item table  *)
(* held another item of the feed with its summary                          *)
C29_Witness ==
    /\ Refreshed
    /\ SummarizedBefore # {}
    /\ last.passed # <<>>
    /\ IdsOf(last.ret) = IdsOf(last.passed)
    /\ last.llm # {}

(* a refresh that passed a cached item without summary and no new item *)
RetryOnlyRefresh ==
    /\ Refreshed
    /\ last.passed # <<>>
    /\ last.ret = <<>>

---------------------------------------------------------------------------
(* The worker with its interval timer and its signal handlers.  A call of  *)
(* processor runs from one await to the next: to the result of getConfigs; *)
(* for each configured feed to the result of getFeedFromUrl, to the result *)
(* of the fetch, to the result of generateSummary when there are items to  *)
(* process, and to the end of addFeed or refreshFeed, whose changes of the *)
(* manager are made at that last step.  The timer calls processor whether  *)
(* or not an earlier call has returned.  worker.runs[r] is the r-th call   *)
(* of processor.                                                           *)

Runs == 1..MaxCycles

NoRun == [pc |-> "idle", pos |-> 0, feed |-> None, fetch |-> None, llm |-> {},
          afterSignal |-> FALSE]

TimerFetches == {Some(<<>>), Some(<<RecentEntry>>)}

(* startSimplyFeedWorker as called: nothing has run *)
WorkerStarted(w) == "timer" \in DOMAIN w

(* the calls of processor that have not returned *)
InProgress(w) == {r \in Runs : w.runs[r].pc \notin {"idle", "done"}}

(* processor() *)
CallProcessor(w, r) ==
    [w EXCEPT !.runs[r] = [NoRun EXCEPT !.pc = "getConfigs", !.afterSignal = w.signalled]]

(* the callback of setInterval *)
OnInterval(w, r) == CallProcessor(w, r)

(* cleanup, the handler of SIGINT and SIGTERM *)
Cleanup(w) ==
    [w EXCEPT !.timer = "cleared", !.resolved = TRUE, !.signalled = TRUE,
              !.atSignal = InProgress(w)]

TimerFrame == UNCHANGED <<calls, codec, storeVars>>
ManagerFrame ==
    UNCHANGED <<cachedFeeds, cachedItems, cachedFeedsTimestamp, feedsTable, itemsTable,
                feedCount, itemCount, now, last, addFeedResults>>

(* startSimplyFeedWorker: the first call of processor; then the promise is *)
(* resolved (runOnce), or the timer is set and the handlers are registered *)
StartWorker ==
    \E runOnce \in BOOLEAN :
        /\ ~WorkerStarted(worker)
        /\ worker' = CallProcessor([timer |-> IF runOnce THEN "none" ELSE "set",
                                    resolved |-> runOnce, signalled |-> FALSE,
                                    atSignal |-> {},
                                    runs |-> [r \in Runs |-> NoRun]], 1)
        /\ ManagerFrame
        /\ TimerFrame

(* the interval has passed *)
TimerFires ==
    \E r \in Runs :
        /\ WorkerStarted(worker)
        /\ worker.timer = "set"
        /\ worker.runs[r].pc = "idle"
        /\ \A q \in 1..(r - 1) : worker.runs[q].pc # "idle"
        /\ worker' = OnInterval(worker, r)
        /\ ManagerFrame
        /\ TimerFrame

(* SIGINT or SIGTERM *)
Signal ==
    /\ WorkerStarted(worker)
    /\ worker.timer = "set"
    /\ worker' = Cleanup(worker)
    /\ ManagerFrame
    /\ TimerFrame

(* the position after pos in the loop over the configs *)
NextConfig(run) ==
    IF run.pos = Len(Configs) THEN [NoRun EXCEPT !.pc = "done", !.afterSignal = run.afterSignal]
    ELSE [NoRun EXCEPT !.pc = "lookup", !.pos = run.pos + 1, !.afterSignal = run.afterSignal]

(* getConfigs has returned: the loop begins *)
RunGetConfigs ==
    \E r \in Runs :
        /\ WorkerStarted(worker)
        /\ worker.runs[r].pc = "getConfigs"
        /\ worker' = [worker EXCEPT !.runs[r] = NextConfig(@)]
        /\ ManagerFrame
        /\ TimerFrame

(* getFeedFromUrl has returned: addFeed or refreshFeed is called and runs  *)
(* to the await of its fetch                                               *)
RunLookup ==
    \E r \in Runs :
        LET g == GetFeedFromUrl(Cur, Configs[worker.runs[r].pos], "none")
        IN  /\ WorkerStarted(worker)
            /\ worker.runs[r].pc = "lookup"
            /\ Commit(g.s)
            /\ worker' = [worker EXCEPT !.runs[r].pc = "fetch", !.runs[r].feed = g.ret]
            /\ UNCHANGED <<now, last, addFeedResults>>
            /\ TimerFrame

(* the items that the call in progress will pass to generateSummary *)
ToSummarize(s, run, fetch, t) ==
    IF run.feed # None THEN ProcessingOf(s, run.feed[1].id, fetch, "none")
    ELSE IF FindByUrl(GetFeeds(s, 0, 0, t, "none").ret, Configs[run.pos]) # None THEN <<>>
    ELSE ExtractFeedItems(FeedUuid(s.fc + 1), fetch[1])

(* the fetch has returned: the call goes on to the await of                *)
(* generateSummary, or to its storage calls when there is no item to       *)
(* process                                                                 *)
RunFetch ==
    \E r \in Runs, fetch \in TimerFetches :
        /\ WorkerStarted(worker)
        /\ worker.runs[r].pc = "fetch"
        /\ worker' = [worker EXCEPT
                         !.runs[r].fetch = fetch,
                         !.runs[r].pc = IF Len(ToSummarize(Cur, worker.runs[r], fetch, now)) > 0
                                        THEN "summarize" ELSE "store"]
        /\ ManagerFrame
        /\ TimerFrame

(* generateSummary has returned, for the last item to process *)
RunSummarized ==
    \E r \in Runs, llm \in SummaryOutcomes :
        /\ WorkerStarted(worker)
        /\ worker.runs[r].pc = "summarize"
        /\ worker' = [worker EXCEPT !.runs[r].llm = llm, !.runs[r].pc = "store"]
        /\ ManagerFrame
        /\ TimerFrame

(* addFeed or refreshFeed comes to its end; an error ends the call of      *)
(* processor in its catch                                                  *)
RunStore ==
    \E r \in Runs :
        LET run == worker.runs[r]
            feedUrl == Configs[run.pos]
            res == IF run.feed = None
                   THEN AddFeed(Cur, feedUrl, run.fetch, run.llm, "none", now)
                   ELSE RefreshFeed(Cur, run.feed[1].id, run.fetch, run.llm, "none", now)
        IN  /\ WorkerStarted(worker)
            /\ run.pc = "store"
            /\ Commit(res.s)
            /\ worker' = [worker EXCEPT
                             !.runs[r] = IF res.err
                                         THEN [NoRun EXCEPT !.pc = "done",
                                                            !.afterSignal = run.afterSignal]
                                         ELSE NextConfig(run)]
            /\ last' = Done(IF run.feed = None THEN "addFeed" ELSE "refreshFeed", feedUrl, res)
            /\ addFeedResults' = IF run.feed = None /\ ~res.err
                                 THEN addFeedResults \cup {<<ToLowerCase(feedUrl), res.ret.id>>}
                                 ELSE addFeedResults
            /\ UNCHANGED now
            /\ TimerFrame

NextTimer ==
    \/ StartWorker
    \/ TimerFires
    \/ Signal
    \/ RunGetConfigs
    \/ RunLookup
    \/ RunFetch
    \/ RunSummarized
    \/ RunStore

SpecTimer == Init /\ [][NextTimer]_vars

(* the calls of processor that are inside refreshFeed or addFeed of the    *)
(* configured feed at position pos                                         *)
Refreshing(pos) ==
    {r \in Runs : worker.runs[r].pos = pos
                  /\ worker.runs[r].pc \in {"fetch", "summarize", "store"}}

(* the calls of processor that await generateSummary *)
Summarizing == {r \in Runs : worker.runs[r].pc = "summarize"}

(* C24: at most one cycle of the worker is running at any time, so that at *)
(* most one refreshFeed of a feed is in progress and at most one           *)
(* summarization call is outstanding.                                      *)
C24_OneCycleAtATime ==
    WorkerStarted(worker) =>
        /\ Cardinality(InProgress(worker)) <= 1
        /\ \A pos \in DOMAIN Configs : Cardinality(Refreshing(pos)) <= 1
        /\ Cardinality(Summarizing) <= 1

(* the parts of C24 about refreshFeed and about generateSummary *)
OneRefreshOfAFeed ==
    WorkerStarted(worker) => \A pos \in DOMAIN Configs : Cardinality(Refreshing(pos)) <= 1

OneSummarizationOutstanding ==
    WorkerStarted(worker) => Cardinality(Summarizing) <= 1

(* with runOnce there is one cycle *)
RunOnceIsOneCycle ==
    (WorkerStarted(worker) /\ worker.timer = "none") =>
        InProgress(worker) \subseteq {1} /\ \A r \in Runs \ {1} : worker.runs[r].pc = "idle"

(* C25: when a shutdown signal arrives while a cycle is in progress, the   *)
(* cycle runs to its end before the timer is stopped and the promise of    *)
(* the worker is resolved, and no cycle starts after the signal.           *)
C25_ShutdownAfterCycle ==
    (WorkerStarted(worker) /\ worker.signalled) =>
        /\ (worker.timer = "cleared" \/ worker.resolved) => InProgress(worker) = {}
        /\ \A r \in Runs : ~worker.runs[r].afterSignal

(* the part of C25 that is about the cycles after the signal *)
NoCycleStartsAfterSignal ==
    WorkerStarted(worker) =>
        /\ \A r \in Runs : ~worker.runs[r].afterSignal
        /\ worker.signalled => InProgress(worker) \subseteq worker.atSignal


(***************************************************************************)
(* The feed parser.  A document is what fast-xml-parser gives: a data      *)
(* object is a sequence of entries [k, v] in document order, a key is a    *)
(* pair of the part before the colon (or the attribute marker) and the     *)
(* name, and a value is a string or an object of entries.                  *)
(***************************************************************************)
ATTR_PREFIX == "@_"
XMLNS_ATTR == "@_xmlns"

(* the keys of a parsed element: `name`, `prefix:name`, `@_name`,          *)
(* `@_xmlns:prefix` (`@_xmlns` for the default namespace) and `#text`      *)
Tag(name) == <<"", name>>
Qualified(prefix, name) == <<prefix, name>>
Attr(name) == <<ATTR_PREFIX, name>>
Xmlns(prefix) == <<XMLNS_ATTR, prefix>>
Text == <<"", "#text">>

Obj(entries) == [t |-> "object", v |-> entries]
Entry(k, v) == <<[k |-> k, v |-> v]>>

(* XmlNamespaces, each URI abbreviated to two letters: "at", "co", "it",   *)
(* "dc".  The URIs of the source are in lower case.                        *)
Atom == <<97, 116>>
Content == <<99, 111>>
Itunes == <<105, 116>>
DC == <<100, 99>>

(* a truthy value of the `||` chains of the parser: an object is truthy *)
TruthyValue(value) ==
    /\ value # None
    /\ CASE value[1].t = "object" -> TRUE
         [] value[1].t = "boolean" -> value[1].v = <<TRUE>>
         [] value[1].t = "number" -> value[1].v # <<0>>
         [] value[1].t = "string" -> value[1].v # <<>>
         [] OTHER -> FALSE

(* a || b *)
JsOr(a, b) == IF TruthyValue(a) THEN a ELSE b

(* a prefix map keyed by the URI as the document writes it *)
NamespacesAsWritten(data) ==
    LET decl == {i \in DOMAIN data : data[i].k[1] = XMLNS_ATTR}
    IN  [u \in {data[i].v.v : i \in decl} |->
            data[CHOOSE i \in decl : data[i].v.v = u /\ \A j \in decl : data[j].v.v = u => j <= i].k[2]]

(* getNamespacePrefixMap: the lower-cased URI of every xmlns attribute of  *)
(* the element to its prefix, a later declaration replacing an earlier one *)
GetNamespacePrefixMap(data) ==
    LET decl == {i \in DOMAIN data : data[i].k[1] = XMLNS_ATTR}
        uriOf(i) == ToLowerCase(data[i].v.v)
        lastOf(u) == CHOOSE i \in decl : uriOf(i) = u /\ \A j \in decl : uriOf(j) = u => j <= i
    IN  [u \in {uriOf(i) : i \in decl} |->
            IF data[lastOf(u)].k[2] = "" THEN "default" ELSE data[lastOf(u)].k[2]]

(* fetchItemsAndUpdateFeed: the declarations of the channel are laid over  *)
(* those of the root                                                       *)
MergedNamespaces(nsMap, channelNSMap) ==
    [u \in DOMAIN nsMap \cup DOMAIN channelNSMap |->
        IF u \in DOMAIN channelNSMap THEN channelNSMap[u] ELSE nsMap[u]]

(* getElement: undefined when the namespace asked for is not declared *)
GetElement(data, key, nsMap, namespace) ==
    IF namespace # None /\ namespace[1] \notin DOMAIN nsMap
    THEN None
    ELSE PropertyOf(data, IF namespace = None THEN Tag(key)
                          ELSE Qualified(nsMap[namespace[1]], key))

(* getStringElement *)
GetStringElement(data, key, nsMap, namespace) ==
    LET value == GetElement(data, key, nsMap, namespace)
    IN  IF value # None /\ value[1].t = "string" THEN value ELSE None

(* getElementWithDefault *)
GetElementWithDefault(data, key, defaultValue, nsMap, namespace) ==
    JsOr(GetElement(data, key, nsMap, namespace), Some(defaultValue))

(* getElementAttribute: value[attr], which a string does not have *)
GetElementAttribute(data, key, attr, nsMap, namespace) ==
    LET value == GetElement(data, key, nsMap, namespace)
    IN  IF TruthyValue(value) /\ value[1].t = "object" THEN PropertyOf(value[1].v, attr)
        ELSE None

(* parseItemGuid *)
ParseItemGuid(data) ==
    LET guid == GetElementAttribute(data, "guid", Text, <<>>, None)
    IN  IF ~TruthyValue(guid) THEN None
        ELSE Some([guid |-> guid[1],
                   isLink |-> GetElementAttribute(data, "guid", Attr("isPermaLink"), <<>>, None)
                                  # Some(Bool(FALSE))])

(* NodeHtmlMarkdown.translate on character codes: the tags of the markup   *)
(* are dropped and the text between them is trimmed                        *)
RECURSIVE StripTags(_, _, _)
StripTags(html, i, inTag) ==
    IF i > Len(html) THEN <<>>
    ELSE IF html[i] = 60 THEN StripTags(html, i + 1, TRUE)
    ELSE IF inTag THEN StripTags(html, i + 1, html[i] # 62)
    ELSE <<html[i]>> \o StripTags(html, i + 1, FALSE)

RECURSIVE TrimText(_)
TrimText(str) ==
    IF str = <<>> THEN <<>>
    ELSE IF str[1] = 32 THEN TrimText(Tail(str))
    ELSE IF str[Len(str)] = 32 THEN TrimText(SubSeq(str, 1, Len(str) - 1))
    ELSE str

Translate(html) == TrimText(StripTags(html, 1, FALSE))

(* a rule that discards only the items without link *)
DiscardedWithoutLink(link, mdDesc, mdContent) == ~TruthyValue(link)

(* extractFeedItems, the rule that discards an item *)
Discarded(link, mdDesc, mdContent) ==
    ~TruthyValue(link) \/ (mdDesc = <<>> /\ mdContent = <<>>)

(* extractFeedItems, the body of the loop for one item: the item pushed or *)
(* nothing                                                                 *)
ExtractFeedItem(item, nsMap) ==
    LET guid == ParseItemGuid(item)
        link == JsOr(JsOr(JsOr(GetElementAttribute(item, "link", Attr("href"), nsMap, Some(Atom)),
                               GetElementAttribute(item, "link", Attr("href"), <<>>, None)),
                          GetStringElement(item, "link", <<>>, None)),
                     IF guid # None /\ guid[1].isLink THEN Some(guid[1].guid) ELSE None)
        content == GetElementAttribute(item, "content", Text, <<>>, None)
        encoded == JsOr(JsOr(GetElementWithDefault(item, "encoded", Str(<<>>), nsMap, Some(Content)),
                             content),
                        Some(Str(<<>>)))
        description == JsOr(JsOr(GetElementAttribute(item, "description", Text, <<>>, None),
                                 GetStringElement(item, "description", <<>>, None)),
                            Some(Str(<<>>)))
        mdContent == IF TruthyValue(encoded) THEN Translate(encoded[1].v) ELSE <<>>
        mdDesc == IF TruthyValue(description) THEN Translate(description[1].v) ELSE <<>>
    IN  IF Discarded(link, mdDesc, mdContent) THEN <<>>
        ELSE <<[guid |-> guid, link |-> link[1], description |-> mdDesc, content |-> mdContent]>>

(* fetchItemsAndUpdateFeed, from the parsed document to the author of the  *)
(* feed and the items                                                      *)
ParsedFeed(rss) ==
    LET channel == PropertyOf(rss, Tag("channel"))[1].v
        nsMap == MergedNamespaces(GetNamespacePrefixMap(rss), GetNamespacePrefixMap(channel))
        rawItems == JsOr(PropertyOf(channel, Tag("item")), PropertyOf(channel, Tag("entry")))
    IN  [author |-> JsOr(GetElement(channel, "author", nsMap, Some(Itunes)),
                         GetElement(channel, "creator", nsMap, Some(DC))),
         items |-> IF TruthyValue(rawItems) THEN ExtractFeedItem(rawItems[1].v, nsMap) ELSE <<>>]

(* The documents: markup and text *)
Plain == <<120>>
MarkupOnly == <<60, 98, 62, 60, 47, 98, 62>>
Marked == <<60, 98, 62, 120, 60, 47, 98, 62>>

Opt(k, values) == {<<>>} \cup {Entry(k, v) : v \in values}

RawLinks ==
    Opt(Tag("link"), {Str(<<108>>), Obj(Entry(Attr("href"), Str(<<104>>)))})
        \cup {Entry(Qualified("a", "link"), Obj(Entry(Attr("href"), Str(<<104>>))))}
RawGuids ==
    Opt(Tag("guid"), {Str(<<103>>), Obj(Entry(Text, Str(<<103>>))),
                      Obj(Entry(Text, Str(<<103>>)) \o Entry(Attr("isPermaLink"), Bool(FALSE)))})
RawDescriptions ==
    Opt(Tag("description"), {Str(<<>>), Str(Plain), Str(MarkupOnly), Obj(Entry(Text, Str(Marked)))})
RawEncoded == Opt(Qualified("content", "encoded"), {Str(Marked), Str(MarkupOnly)})
RawContents == Opt(Tag("content"), {Obj(Entry(Text, Str(Plain)))})

RawItems ==
    {l \o g \o d \o e \o c :
        l \in RawLinks, g \in RawGuids, d \in RawDescriptions, e \in RawEncoded, c \in RawContents}

(* a document of one item, the root declaring the Atom and the content     *)
(* namespaces                                                              *)
ItemDocument(item) ==
    Entry(Xmlns("a"), Str(Atom)) \o Entry(Xmlns("content"), Str(Content))
        \o Entry(Tag("channel"), Obj(Entry(Tag("item"), Obj(item))))

(* the podcast namespace as documents write it *)
ItunesUris == {Itunes, <<73, 116>>}
Prefixes == {"itunes", "p"}
Declarations == {<<>>} \cup {Entry(Xmlns(p), Str(u)) : p \in Prefixes, u \in ItunesUris}

(* a document without items: the podcast namespace is declared at the root *)
(* or at the channel, and the channel has authors                          *)
ChannelsDeclaring(atRoot) ==
    {Entry(Xmlns("dc"), Str(DC)) \o atRoot
        \o Entry(Tag("channel"), Obj(atChannel \o author \o podcast \o creator)) :
        atChannel \in {d \in Declarations : <<>> \in {atRoot, d} \/ d = atRoot},
        author \in Opt(Tag("author"), {Str(<<100>>)}),
        podcast \in UNION {Opt(Qualified(p, "author"), {Str(<<97>>)}) : p \in Prefixes},
        creator \in Opt(Qualified("dc", "creator"), {Str(<<99>>)})}

ChannelDocuments == UNION {ChannelsDeclaring(atRoot) : atRoot \in Declarations}

Documents == {ItemDocument(item) : item \in RawItems} \cup ChannelDocuments


(* the document arrives *)
FetchDocument ==
    /\ \E rss \in Documents : parser' = Some([rss |-> rss, parsed |-> None])
    /\ UNCHANGED <<mgrVars, calls, worker, codec, azure, file, disk, guard, query>>

(* fetchItemsAndUpdateFeed on the document that arrived *)
ParseFetched ==
    /\ parser # None
    /\ parser[1].parsed = None
    /\ parser' = Some([parser[1] EXCEPT !.parsed = Some(ParsedFeed(parser[1].rss))])
    /\ UNCHANGED <<mgrVars, calls, worker, codec, azure, file, disk, guard, query>>

NextParse == FetchDocument \/ ParseFetched

SpecParse == Init /\ [][NextParse]_vars

DocumentParsed == parser # None /\ parser[1].parsed # None
ChannelOf(rss) == PropertyOf(rss, Tag("channel"))[1].v
RawItemOf(rss) == PropertyOf(ChannelOf(rss), Tag("item"))
Has(data, k) == PropertyOf(data, k) # None

ItemWithTextIsEmitted ==
    (/\ DocumentParsed
     /\ RawItemOf(parser[1].rss) # None
     /\ Has(RawItemOf(parser[1].rss)[1].v, Tag("link"))
     /\ PropertyOf(RawItemOf(parser[1].rss)[1].v, Tag("description")) = Some(Str(Plain)))
        => Len(parser[1].parsed[1].items) = 1

(* the prefixes the document binds to the podcast namespace, at the root   *)
(* or at the channel                                                       *)
DeclaredPodcastPrefixes(data) ==
    {data[i].k[2] : i \in {j \in DOMAIN data : /\ data[j].k[1] = XMLNS_ATTR
                                               /\ ToLowerCase(data[j].v.v) = Itunes}}

PodcastPrefixes(rss) == DeclaredPodcastPrefixes(rss) \cup DeclaredPodcastPrefixes(ChannelOf(rss))

UndeclaredNamespaceGivesNoAuthor ==
    (/\ DocumentParsed
     /\ PodcastPrefixes(parser[1].rss) = {}
     /\ ~Has(ChannelOf(parser[1].rss), Qualified("dc", "creator")))
        => parser[1].parsed[1].author = None


(* the guid element of the item of the document, when it has one that is   *)
(* not marked isPermaLink=false                                            *)
PermalinkGuid ==
    /\ DocumentParsed
    /\ RawItemOf(parser[1].rss) # None
    /\ Has(RawItemOf(parser[1].rss)[1].v, Tag("guid"))
    /\ GetElementAttribute(RawItemOf(parser[1].rss)[1].v, "guid", Attr("isPermaLink"), <<>>, None)
           # Some(Bool(FALSE))

(* the item has text, so that it is dropped only for want of a link *)
HasPlainDescription ==
    PropertyOf(RawItemOf(parser[1].rss)[1].v, Tag("description")) = Some(Str(Plain))

(* the item has no link element, with or without namespace *)
NoLinkElement ==
    /\ ~Has(RawItemOf(parser[1].rss)[1].v, Tag("link"))
    /\ ~Has(RawItemOf(parser[1].rss)[1].v, Qualified("a", "link"))

(* C31: an item whose guid element is present and not marked               *)
(* isPermaLink=false, with or without attributes, is parsed with the guid  *)
(* text and isLink true; and when it has no link element its link is the   *)
(* guid text.                                                              *)
C31_GuidDefaultsToPermalink ==
    PermalinkGuid =>
        /\ \A i \in DOMAIN parser[1].parsed[1].items :
               parser[1].parsed[1].items[i].guid = Some([guid |-> Str(<<103>>), isLink |-> TRUE])
        /\ (NoLinkElement /\ HasPlainDescription) =>
               /\ Len(parser[1].parsed[1].items) = 1
               /\ parser[1].parsed[1].items[1].link = Str(<<103>>)

(* the same for the guid elements that the XML parser gives as an object,  *)
(* those with an attribute                                                 *)
GuidWithAttributeDefaultsToPermalink ==
    (PermalinkGuid /\ PropertyOf(RawItemOf(parser[1].rss)[1].v, Tag("guid"))[1].t = "object") =>
        /\ \A i \in DOMAIN parser[1].parsed[1].items :
               parser[1].parsed[1].items[i].guid = Some([guid |-> Str(<<103>>), isLink |-> TRUE])
        /\ (NoLinkElement /\ HasPlainDescription) =>
               /\ Len(parser[1].parsed[1].items) = 1
               /\ parser[1].parsed[1].items[1].link = Str(<<103>>)

(* a guid element without attribute, which the XML parser gives as a       *)
(* string, is not read: the item has no guid, and no link from it          *)
GuidWithoutAttributeIsNotRead ==
    (PermalinkGuid /\ PropertyOf(RawItemOf(parser[1].rss)[1].v, Tag("guid"))[1].t = "string") =>
        /\ \A i \in DOMAIN parser[1].parsed[1].items : parser[1].parsed[1].items[i].guid = None
        /\ NoLinkElement => parser[1].parsed[1].items = <<>>

(* a guid marked isPermaLink=false gives no link *)
NonPermalinkGuidGivesNoLink ==
    (/\ DocumentParsed
     /\ RawItemOf(parser[1].rss) # None
     /\ Has(RawItemOf(parser[1].rss)[1].v, Tag("guid"))
     /\ ~PermalinkGuid
     /\ NoLinkElement)
        => parser[1].parsed[1].items = <<>>

---------------------------------------------------------------------------
(* A reader and the worker as two processes on one store (index.ts: the    *)
(* worker is started with --worker, the server without).  The manager      *)
(* variables are those of the reader; the worker is a process started with *)
(* --run_once, whose caches begin empty and end with it.                   *)

BackfilledEntry == [guid |-> NoGuid, link |-> "l", publishedTime |-> StartTime - 2 * MinutesPerDay]
ReaderFetches == {None, Some(<<>>), Some(<<RecentEntry>>), Some(<<BackfilledEntry>>)}

(* the manager of a process that has just started, on the store as it is *)
FreshProcess == [Cur EXCEPT !.cf = <<>>, !.ci = <<>>, !.ts = 0]

(* processor, for one configured feed, in the worker process *)
WorkerProcessed(g, feedUrl, fetch) ==
    IF g.ret = None THEN AddFeed(g.s, feedUrl, fetch, {}, "none", now)
    ELSE RefreshFeed(g.s, g.ret[1].id, fetch, {}, "none", now)

(* a run of the worker process *)
WorkerRuns ==
    \E feedUrl \in OneUrl, fetch \in ReaderFetches :
        LET r == WorkerProcessed(GetFeedFromUrl(FreshProcess, feedUrl, "none"), feedUrl, fetch)
        IN  /\ r.s.fc <= MaxFeeds
            /\ r.s.ic <= MaxItems
            /\ feedsTable' = r.s.ft
            /\ itemsTable' = r.s.it
            /\ feedCount' = r.s.fc
            /\ itemCount' = r.s.ic
            /\ last' = [op |-> "worker", arg |-> feedUrl,
                        outcome |-> IF r.err THEN "raised" ELSE "ok"]
            /\ UNCHANGED <<cachedFeeds, cachedItems, cachedFeedsTimestamp, now, addFeedResults,
                           envVars>>

(* getItemsFromFeed in the reader, with what the reader saw of the feed    *)
(* and what the store held for it                                          *)
ReaderGetItems ==
    \E id \in KnownIds :
        LET g == GetFeed(Cur, id, "none")
            r == GetItemsFromFeed(Cur, id, 0, 0, 0, "none")
        IN  /\ Commit(r.s)
            /\ last' = [op |-> "getItemsFromFeed", arg |-> id,
                        outcome |-> IF r.err THEN "raised" ELSE "ok",
                        ret |-> r.ret,
                        observed |-> g.ret,
                        stored |-> StoredFeed(id),
                        storedItems |-> StoredItems(id),
                        cacheBefore |-> CachedItemsOf(cachedItems, id)]
            /\ UNCHANGED <<now, addFeedResults, envVars>>

NextReader == WorkerRuns \/ DoGetFeeds({"none"}) \/ ReaderGetItems \/ Tick

SpecReader == Init /\ [][NextReader]_vars

(* the reader has read the items of a feed of which it saw the record that *)
(* is stored                                                               *)
ReadWithStoredRecord ==
    /\ last.op = "getItemsFromFeed"
    /\ last.observed # None
    /\ last.observed = last.stored

(* C28: a getItemsFromFeed of a reader that sees the stored Feed record    *)
(* returns every item stored for the feed, whatever the reader had cached, *)
(* an item not newer than the head of its cache included.                  *)
C28_CacheCatchesUp ==
    ReadWithStoredRecord => IdsOf(last.storedItems) \subseteq IdsOf(last.ret)

(* a reader whose cache of the feed is empty is given every stored item *)
EmptyCacheReadsAll ==
    (ReadWithStoredRecord /\ last.cacheBefore = <<>>)
        => IdsOf(last.storedItems) \subseteq IdsOf(last.ret)

(* the stored items that are newer than the head of the reader's cache,    *)
(* when the head is older than the latest time of the record               *)
NewerThanHead ==
    {last.storedItems[i].id :
        i \in {j \in DOMAIN last.storedItems :
                  last.storedItems[j].publishedTime > last.cacheBefore[1].publishedTime}}

(* a reader whose cache is behind the record is given the stored items     *)
(* that are newer than the head of its cache                               *)
BehindCacheReadsNewer ==
    (/\ ReadWithStoredRecord
     /\ last.cacheBefore # <<>>
     /\ last.cacheBefore[1].publishedTime < last.observed[1].latestItemPublishedTime)
        => NewerThanHead \subseteq IdsOf(last.ret)


---------------------------------------------------------------------------
(* The records of the codec, for payloads of every size up to the chunk    *)
(* ceiling and one byte above it.                                          *)

RecordPayloads == DataObjects \cup {SizedObject(97, n) : n \in TitleLengths}

InitRecord ==
    /\ MgrInit
    /\ calls = NoCalls
    /\ worker = WorkerIdle
    /\ codec \in {[data |-> Some(d), entity |-> None, object |-> None, damage |-> "none"] :
                   d \in RecordPayloads}
    /\ StoreInit

(* createTableEntity is the one step: the records are not read back here *)
NextRecord == DoCreateTableEntity

SpecRecord == InitRecord /\ [][NextRecord]_vars

(* the bytes of the chunks of an entity, in the order of their index *)
ChunkBytes(entity) == Concat([i \in DOMAIN entity.dataChunk |-> entity.dataChunk[i].v], 1)

(* C30: a record made by the codec has dataChunks equal to the byte length *)
(* of its payload divided by the chunk size and rounded up, between 1 and  *)
(* MAX_CHUNKS_COUNT; it has the chunk fields 0 .. dataChunks - 1 and no    *)
(* other; every chunk but the last has the chunk size and the last has at  *)
(* most that; isProto is false; and the chunks in the order of their index *)
(* are the UTF-8 bytes of the JSON text of the payload.                    *)
C30_RecordShape ==
    codec.entity # None =>
        LET entity == codec.entity[1]
            bytes == Utf8Encode(JsonStringify(codec.data[1]))
        IN  /\ entity.dataChunks # None
            /\ entity.dataChunks[1].t = "number"
            /\ LET n == entity.dataChunks[1].v[1]
               IN  /\ (n - 1) * ChunkSize < Len(bytes)
                   /\ Len(bytes) <= n * ChunkSize
                   /\ 1 <= n
                   /\ n <= MAX_CHUNKS_COUNT
                   /\ DOMAIN entity.dataChunk = 1..n
                   /\ \A i \in 1..n :
                       /\ entity.dataChunk[i].t = "bytes"
                       /\ Len(entity.dataChunk[i].v) <= ChunkSize
                       /\ i < n => Len(entity.dataChunk[i].v) = ChunkSize
            /\ entity.isProto = Some(Bool(FALSE))
            /\ ChunkBytes(entity) = bytes

(* a record of MAX_CHUNKS_COUNT full chunks *)
C30_Witness ==
    /\ codec.entity # None
    /\ codec.entity[1].dataChunks = Some(Num(MAX_CHUNKS_COUNT))
    /\ Len(ChunkBytes(codec.entity[1])) = MAX_CHUNKS_COUNT * ChunkSize

(* a record whose last chunk is shorter than the others *)
ShortLastChunk ==
    /\ codec.entity # None
    /\ Len(ChunkBytes(codec.entity[1])) % ChunkSize # 0

(* no record is made of a payload above the ceiling *)
NoRecordAboveCeiling ==
    ByteLength(codec.data[1]) > MAX_CHUNKS_COUNT * ChunkSize => codec.entity = None


---------------------------------------------------------------------------
(* The search.  Feeds and items carry here the title and the topics that   *)
(* queryFeeds and queryItems read; they are stored by the worker process   *)
(* and read by the server process, whose manager the variables are.        *)

(* String.prototype.split(" ") *)
RECURSIVE SplitFrom(_, _, _)
SplitFrom(str, i, cur) ==
    IF i > Len(str) THEN <<cur>>
    ELSE IF str[i] = 32 THEN <<cur>> \o SplitFrom(str, i + 1, <<>>)
    ELSE SplitFrom(str, i + 1, Append(cur, str[i]))

SplitOnSpace(str) == SplitFrom(str, 1, <<>>)

(* String.prototype.trim *)
RECURSIVE TrimString(_)
TrimString(str) ==
    IF str = <<>> THEN <<>>
    ELSE IF IsSpaceChar(str[1]) THEN TrimString(Tail(str))
    ELSE IF IsSpaceChar(str[Len(str)]) THEN TrimString(SubSeq(str, 1, Len(str) - 1))
    ELSE str

(* String.prototype.includes: the empty string is in every string *)
Includes(str, sub) ==
    \E i \in 0..(Len(str) - Len(sub)) : SubSeq(str, i + 1, i + Len(sub)) = sub

ElementsOf(seq) == {seq[i] : i \in DOMAIN seq}

(* a split that leaves out the empty tokens *)
TokensWithoutEmpty(str) == SelectSeq(SplitFrom(str, 1, <<>>), LAMBDA token : token # <<>>)

(* queryItems: the tokens of the lower-cased query *)
QueryTokens(text) == SplitOnSpace(ToLowerCase(text))

(* queryItems: the topic set, from the result of determineTopics *)
TopicsOfQuery(text, topicsRes) ==
    ElementsOf(IF topicsRes # None THEN topicsRes[1] \o QueryTokens(text)
               ELSE QueryTokens(text))

(* queryFeeds, from the result of getFeeds *)
QueryFeedsListed(gf, text, top, skip) ==
    IF gf.err THEN Raise(gf.s)
    ELSE LET split == SplitOnSpace(text)
             queries == SelectSeq([i \in DOMAIN split |-> TrimString(split[i])],
                                  LAMBDA q : q # <<>>)
         IN  Ok(gf.s,
                Slice(SelectSeq(gf.ret, LAMBDA feed :
                          \E i \in DOMAIN queries : Includes(feed.title, queries[i])),
                      skip, top))

(* queryFeeds *)
QueryFeeds(s, text, top, skip, t, fault) ==
    QueryFeedsListed(GetFeeds(s, 0, 0, t, fault), text, top, skip)

(* queryItems, the loop of getItemsFromFeed over the candidate feeds *)
RECURSIVE WarmFrom(_, _, _, _)
RECURSIVE WarmNext(_, _, _, _)
WarmFrom(s, feeds, i, fault) ==
    IF i > Len(feeds) THEN Ok(s, <<>>)
    ELSE WarmNext(GetItemsFromFeed(s, feeds[i].id, 0, 0, 0, fault), feeds, i, fault)

WarmNext(r, feeds, i, fault) ==
    IF r.err THEN Raise(r.s) ELSE WarmFrom(r.s, feeds, i + 1, fault)

(* queryItems, the test of one item *)
ItemMatches(item, topics) ==
    \/ \E topic \in ElementsOf(item.topics) : topic \in topics
    \/ \E topic \in topics : Includes(item.title, topic)

(* queryItems, the loop over the cached lists of the candidate feeds.  The *)
(* lists are taken in the order of the feeds.                              *)
RECURSIVE MatchedFrom(_, _, _, _)
MatchedFrom(ci, feeds, i, topics) ==
    IF i > Len(feeds) THEN <<>>
    ELSE SelectSeq(CachedItemsOf(ci, feeds[i].id), LAMBDA item : ItemMatches(item, topics))
             \o MatchedFrom(ci, feeds, i + 1, topics)

(* queryItems, from the caches after the loop of getItemsFromFeed *)
QueryItemsWarmed(w, feeds, topics, top, skip) ==
    IF w.err THEN Raise(w.s)
    ELSE Ok(w.s, Slice(MatchedFrom(w.s.ci, feeds, 1, topics), skip, top))

(* queryItems, from the candidate feeds *)
QueryItemsListed(gf, topics, top, skip, fault) ==
    IF gf.err THEN Raise(gf.s)
    ELSE QueryItemsWarmed(WarmFrom(gf.s, gf.ret, 1, fault), gf.ret, topics, top, skip)

(* queryItems: feedFilter is None when the argument is absent *)
QueryItems(s, text, feedFilter, top, skip, topicsRes, t, fault) ==
    IF TrimString(text) = <<>> THEN Ok(s, <<>>)
    ELSE QueryItemsListed(IF feedFilter # None /\ feedFilter[1] # <<>>
                          THEN QueryFeeds(s, feedFilter[1], 0, 0, t, fault)
                          ELSE GetFeeds(s, 0, 0, t, fault),
                          TopicsOfQuery(TrimString(text), topicsRes), top, skip, fault)

(* the feeds and the items of the search *)
SearchFeed(n, title) ==
    [id |-> FeedUuid(n), feedUrl |-> title, title |-> title,
     latestItemPublishedTime |-> 0, firstItemPublishedTime |-> 0]
SearchFeeds == <<SearchFeed(1, <<120>>), SearchFeed(2, <<121>>)>>
SearchTitles == {<<97>>, <<122>>}
SearchTopics == {<<>>, <<<<99>>>>}
QueryTexts == {<<>>, <<32>>, <<97>>, <<65>>, <<97, 32, 98>>, <<97, 32, 32, 98>>, <<100>>}
FeedFilters == {None, Some(<<120>>)}
TopicsResults == {None, Some(<<<<99>>>>)}

(* the worker process has stored the feeds *)
WorkerStoredFeeds ==
    /\ feedsTable = <<>>
    /\ feedsTable' = WriteObjects(feedsTable, SearchFeeds, FEED_PARTITION)
    /\ feedCount' = Len(SearchFeeds)
    /\ last' = [op |-> "worker", arg |-> <<>>, outcome |-> "ok"]
    /\ UNCHANGED <<cachedFeeds, cachedItems, cachedFeedsTimestamp, itemsTable, itemCount, now,
                   addFeedResults, envVars>>

(* the worker process has stored an item of a feed, newer than the others, *)
(* and the Feed with the time of the item                                  *)
WorkerStoredItem ==
    \E n \in DOMAIN SearchFeeds, title \in SearchTitles, topics \in SearchTopics :
        LET publishedTime == StartTime + itemCount + 1
            item == [id |-> ItemUuid(itemCount + 1), feedId |-> FeedUuid(n), guid |-> NoGuid,
                     link |-> ItemUuid(itemCount + 1), publishedTime |-> publishedTime,
                     summary |-> TRUE, title |-> title, topics |-> topics]
            feed == LookupFeed(feedsTable, FeedUuid(n))
        IN  /\ feedsTable # <<>>
            /\ itemCount < MaxItems
            /\ itemsTable' = WriteObject(itemsTable, item, FeedUuid(n))
            /\ feedsTable' = WriteObject(feedsTable,
                                         [StoredFeed(FeedUuid(n))[1] EXCEPT
                                             !.latestItemPublishedTime = publishedTime],
                                         FEED_PARTITION)
            /\ itemCount' = itemCount + 1
            /\ last' = [op |-> "worker", arg |-> <<>>, outcome |-> "ok"]
            /\ UNCHANGED <<cachedFeeds, cachedItems, cachedFeedsTimestamp, feedCount, now,
                           addFeedResults, envVars>>

(* queryItems in the server process, without page *)
DoQueryItems ==
    \E text \in QueryTexts, feedFilter \in FeedFilters, topicsRes \in TopicsResults :
        LET r == QueryItems(Cur, text, feedFilter, 0, 0, topicsRes, now, "none")
        IN  /\ Commit(r.s)
            /\ last' = [op |-> "queryItems", arg |-> text, outcome |-> IF r.err THEN "raised" ELSE "ok",
                        feedFilter |-> feedFilter, topicsRes |-> topicsRes, ret |-> r.ret]
            /\ UNCHANGED <<now, addFeedResults, envVars>>

NextSearch == WorkerStoredFeeds \/ WorkerStoredItem \/ DoQueryItems

SpecSearch == Init /\ [][NextSearch]_vars

(* the non-empty tokens of a text, separated by any white space *)
RECURSIVE WordsFrom(_, _, _)
WordsFrom(str, i, cur) ==
    IF i > Len(str) THEN (IF cur = <<>> THEN {} ELSE {cur})
    ELSE IF IsSpaceChar(str[i]) THEN (IF cur = <<>> THEN {} ELSE {cur}) \cup WordsFrom(str, i + 1, <<>>)
    ELSE WordsFrom(str, i + 1, Append(cur, str[i]))

(* the derived terms of the last query: the topics of the LLM and the      *)
(* lower-cased words of the text                                           *)
DerivedTerms ==
    (IF last.topicsRes = None THEN {} ELSE ElementsOf(last.topicsRes[1]))
        \cup WordsFrom(ToLowerCase(last.arg), 1, <<>>)

(* the feeds that the filter of the last query selects among the stored *)
CandidateFeedIds ==
    {feedsTable[i].data.id :
        i \in {j \in DOMAIN feedsTable :
                  \/ last.feedFilter = None
                  \/ \E w \in WordsFrom(last.feedFilter[1], 1, <<>>) :
                         Includes(feedsTable[j].data.title, w)}}

(* C32: queryItems returns nothing for a blank text; otherwise every item  *)
(* returned is of a candidate feed and has a topic among the derived       *)
(* terms, the topics of the LLM and the non-empty lower-cased words of the *)
(* text, or a title that contains one of them.                             *)
C32_QueryMatchesDerivedTerms ==
    (last.op = "queryItems" /\ last.outcome = "ok") =>
        /\ WordsFrom(last.arg, 1, <<>>) = {} => last.ret = <<>>
        /\ \A i \in DOMAIN last.ret :
            /\ last.ret[i].feedId \in CandidateFeedIds
            /\ \/ ElementsOf(last.ret[i].topics) \cap DerivedTerms # {}
               \/ \E term \in DerivedTerms : Includes(last.ret[i].title, term)

(* the same for the texts whose words are separated by one space *)
SingleSpacedQueryMatchesDerivedTerms ==
    (/\ last.op = "queryItems"
     /\ last.outcome = "ok"
     /\ <<>> \notin ElementsOf(SplitOnSpace(TrimString(last.arg)))) =>
        /\ WordsFrom(last.arg, 1, <<>>) = {} => last.ret = <<>>
        /\ \A i \in DOMAIN last.ret :
            /\ last.ret[i].feedId \in CandidateFeedIds
            /\ \/ ElementsOf(last.ret[i].topics) \cap DerivedTerms # {}
               \/ \E term \in DerivedTerms : Includes(last.ret[i].title, term)

(* a text with two consecutive spaces between its words matches every      *)
(* cached item of the candidate feeds                                      *)
DoubleSpacedQueryMatchesAll ==
    (/\ last.op = "queryItems"
     /\ last.outcome = "ok"
     /\ TrimString(last.arg) # <<>>
     /\ <<>> \in ElementsOf(SplitOnSpace(TrimString(last.arg)))) =>
        \A id \in CandidateFeedIds :
            ElementsOf(CachedItemsOf(cachedItems, id)) \subseteq ElementsOf(last.ret)

(* the blank texts and the candidate feeds alone *)
BlankQueryAndCandidates ==
    (last.op = "queryItems" /\ last.outcome = "ok") =>
        /\ WordsFrom(last.arg, 1, <<>>) = {} => last.ret = <<>>
        /\ \A i \in DOMAIN last.ret : last.ret[i].feedId \in CandidateFeedIds

---------------------------------------------------------------------------
(* SpecPersist: refreshFeed on one feed with summaries that succeed or     *)
(* fail and an item write that succeeds or raises; the process is not      *)
(* restarted, so the item cache lives through the failures                 *)

PersistFaults == {"none", "items.write"}

RefreshPersisting ==
    \E id \in KnownIds, fetch \in SummaryFetches, llm \in SummaryOutcomes,
       fault \in PersistFaults :
        LET r == RefreshFeed(Cur, id, fetch, llm, fault, now)
        IN  /\ Commit(r.s)
            /\ last' = [op |-> "refreshFeed", arg |-> id,
                        outcome |-> RefreshOutcome(Cur, id, fetch, r),
                        fault |-> fault,
                        passed |-> ProcessingOf(Cur, id, fetch, "none"),
                        ret |-> r.ret,
                        tableBefore |-> itemsTable,
                        cacheBefore |-> CachedItemsOf(cachedItems, id)]
            /\ UNCHANGED <<now, addFeedResults, envVars>>

NextPersist ==
    \/ DoAddFeed(OneUrl, {Some(<<>>)}, NoSummaries, {"none"})
    \/ RefreshPersisting
    \/ Tick

SpecPersist == Init /\ [][NextPersist]_vars

ItemWriteRaised ==
    /\ last.op = "refreshFeed"
    /\ last.outcome = "raised"
    /\ last.fault = "items.write"

StoredIds(table, id) ==
    {table[i].data.id : i \in {j \in DOMAIN table : table[j].pk = id}}

(* C33: when the write of the processed items raises, the item cache of    *)
(* the feed is what it was before the refresh                              *)
C33_FailedWriteLeavesCache ==
    ItemWriteRaised => CachedItemsOf(cachedItems, last.arg) = last.cacheBefore

(* when the write of the processed items raises, the cache holds the       *)
(* items that were passed to the write and the item table holds none of    *)
(* the new ones                                                            *)
FailedWriteKeepsItemsInCache ==
    ItemWriteRaised =>
        /\ last.passed # <<>>
        /\ IdsOf(last.passed) \subseteq IdsOf(CachedItemsOf(cachedItems, last.arg))
        /\ itemsTable = last.tableBefore

(* the cached items with a summary that the item table does not hold are   *)
(* not passed to a later refresh and stay out of the item table            *)
SummarizedUnstoredIds ==
    {last.cacheBefore[i].id :
        i \in {j \in DOMAIN last.cacheBefore :
                  /\ last.cacheBefore[j].summary
                  /\ last.cacheBefore[j].id \notin StoredIds(last.tableBefore, last.arg)}}

UnstoredSummarizedItemStaysUnstored ==
    (last.op = "refreshFeed" /\ last.outcome \in {"ok", "raised"}) =>
        /\ SummarizedUnstoredIds \cap IdsOf(last.passed) = {}
        /\ SummarizedUnstoredIds \cap StoredIds(itemsTable, last.arg) = {}

(* a refresh begins with a summarized item in the cache that the item      *)
(* table does not hold                                                     *)
UnstoredSummarizedItemSeen ==
    /\ last.op = "refreshFeed"
    /\ last.outcome = "ok"
    /\ SummarizedUnstoredIds # {}

---------------------------------------------------------------------------
(* SpecRetention: one process that adds a feed, refreshes it and reads its *)
(* items while time passes; no storage call fails and the process is not   *)
(* restarted                                                               *)

RefreshRetaining ==
    \E id \in KnownIds, fetch \in SummaryFetches :
        LET r == RefreshFeed(Cur, id, fetch, 1..(MaxDocLen + MaxItems), "none", now)
            current == CurrentOf(Cur, id, fetch, "none")
        IN  /\ Commit(r.s)
            /\ last' = [op |-> "refreshFeed", arg |-> id,
                        outcome |-> RefreshOutcome(Cur, id, fetch, r),
                        ret |-> r.ret,
                        submitted |-> KeysToDelete(current, now),
                        at |-> now,
                        tableBefore |-> itemsTable,
                        cacheBefore |-> CachedItemsOf(cachedItems, id)]
            /\ UNCHANGED <<now, addFeedResults, envVars>>

GetItemsRetained ==
    \E id \in KnownIds :
        LET r == GetItemsFromFeed(Cur, id, 0, 0, 0, "none")
        IN  /\ Commit(r.s)
            /\ last' = [op |-> "getItemsFromFeed", arg |-> id,
                        outcome |-> IF r.err THEN "raised" ELSE "ok",
                        ret |-> r.ret,
                        submitted |-> {},
                        at |-> now,
                        tableBefore |-> itemsTable,
                        cacheBefore |-> CachedItemsOf(cachedItems, id)]
            /\ UNCHANGED <<now, addFeedResults, envVars>>

NextRetention ==
    \/ DoAddFeed(OneUrl, {Some(<<>>)}, NoSummaries, {"none"})
    \/ RefreshRetaining
    \/ GetItemsRetained
    \/ Tick

SpecRetention == Init /\ [][NextRetention]_vars

(* C34: between the operations every item of a feed's item cache is in the *)
(* item table                                                              *)
C34_CachedItemsAreStored ==
    \A id \in DOMAIN cachedItems :
        IdsOf(cachedItems[id]) \subseteq StoredIds(itemsTable, id)

(* the items that a refresh submits for deletion stay in the item cache    *)
ExpiredItemStaysCached ==
    (last.op = "refreshFeed" /\ last.outcome = "ok") =>
        /\ last.submitted \subseteq IdsOf(CachedItemsOf(cachedItems, last.arg))
        /\ last.submitted \cap StoredIds(itemsTable, last.arg) = {}

(* the cached items that the item table no longer holds are returned by    *)
(* getItemsFromFeed                                                        *)
DeletedItemIsReturned ==
    (last.op = "getItemsFromFeed" /\ last.outcome = "ok") =>
        IdsOf(last.cacheBefore) \subseteq IdsOf(last.ret)

DeletedItemRead ==
    /\ last.op = "getItemsFromFeed"
    /\ last.outcome = "ok"
    /\ IdsOf(last.ret) \ StoredIds(last.tableBefore, last.arg) # {}

(* the expired items of the cache are submitted for deletion by every      *)
(* refresh, whether or not the item table still holds them                 *)
ExpiredCachedItemIsSubmitted ==
    (last.op = "refreshFeed" /\ last.outcome = "ok") =>
        KeysToDelete(last.cacheBefore, last.at) \subseteq last.submitted

DeletedItemSubmittedAgain ==
    /\ last.op = "refreshFeed"
    /\ last.outcome = "ok"
    /\ last.submitted \ StoredIds(last.tableBefore, last.arg) # {}
    /\ last.submitted \subseteq IdsOf(last.cacheBefore)

---------------------------------------------------------------------------
(* SpecCycle: the worker cycle over a configuration that names one feed    *)
(* under two spellings, "x" and "X", and a second feed "y"                 *)

CaseConfigs == <<<<120>>, <<88>>, <<121>>>>

(* whether processing feedUrl reaches fetchItemsAndUpdateFeed: through     *)
(* refreshFeed when getFeedFromUrl finds the feed, through addFeed and its *)
(* refreshFeed when addFeed finds no feed of that URL                      *)
FetchAttemptedAdding(gf, feedUrl) ==
    ~gf.err /\ FindByUrl(gf.ret, feedUrl) = None

FetchAttemptedLooked(g, feedUrl, fault, t) ==
    IF g.ret = None
    THEN FetchAttemptedAdding(GetFeeds(g.s, 0, 0, t, fault), feedUrl)
    ELSE GetFeed(g.s, g.ret[1].id, fault).ret # None

FetchAttempted(s, feedUrl, fault, t) ==
    FetchAttemptedLooked(GetFeedFromUrl(s, feedUrl, fault), feedUrl, fault, t)

(* a feed of the cache or of the feeds table has the URL of the            *)
(* configuration in another spelling                                       *)
OtherSpelling(feed, feedUrl) ==
    /\ feed.feedUrl # feedUrl
    /\ ToLowerCase(feed.feedUrl) = ToLowerCase(feedUrl)

OtherSpellingExists(s, feedUrl) ==
    \/ \E i \in DOMAIN s.cf : OtherSpelling(s.cf[i], feedUrl)
    \/ \E i \in DOMAIN s.ft : OtherSpelling(s.ft[i].data, feedUrl)

StartCaseCycle ==
    /\ worker.pos = 0
    /\ worker.cycle < MaxCycles
    /\ worker' = [pos |-> 1, cycle |-> worker.cycle + 1, attempted |-> {}, failed |-> {},
                  fetched |-> {}, shadowed |-> {}]
    /\ UNCHANGED <<mgrVars, calls, codec, storeVars>>

ProcessCaseConfig ==
    \E fetch \in {None, Some(<<>>), Some(<<RecentEntry>>)}, fault \in {"none", "items.write"} :
        LET pos == worker.pos
            feedUrl == CaseConfigs[pos]
            g == GetFeedFromUrl(Cur, feedUrl, fault)
            r == IF g.ret = None THEN AddFeed(g.s, feedUrl, fetch, {}, fault, now)
                 ELSE RefreshFeed(g.s, g.ret[1].id, fetch, {}, fault, now)
        IN  /\ pos > 0
            /\ Commit(r.s)
            /\ worker' = [worker EXCEPT
                            !.attempted = @ \cup {pos},
                            !.failed = IF r.err THEN @ \cup {pos} ELSE @,
                            !.fetched = IF FetchAttempted(Cur, feedUrl, fault, now)
                                        THEN @ \cup {pos} ELSE @,
                            !.shadowed = IF OtherSpellingExists(Cur, feedUrl)
                                         THEN @ \cup {pos} ELSE @,
                            !.pos = IF r.err \/ pos = Len(CaseConfigs) THEN 0 ELSE pos + 1]
            /\ last' = Done(IF g.ret = None THEN "addFeed" ELSE "refreshFeed", feedUrl, r)
            /\ UNCHANGED <<now, addFeedResults, calls, codec, storeVars>>

NextCycle == StartCaseCycle \/ ProcessCaseConfig

SpecCycle == Init /\ [][NextCycle]_vars

CycleEndedWithoutError ==
    /\ worker.pos = 0
    /\ worker.cycle > 0
    /\ worker.failed = {}

(* C35: a cycle in which nothing raised has attempted the fetch for every  *)
(* configured feed URL                                                     *)
C35_EveryConfiguredUrlFetched ==
    CycleEndedWithoutError => worker.fetched = DOMAIN CaseConfigs

(* the same for the configured URLs that are not another spelling of the   *)
(* URL of an existing feed                                                 *)
UrlAsStoredIsFetched ==
    CycleEndedWithoutError =>
        /\ worker.attempted = DOMAIN CaseConfigs
        /\ worker.attempted \ worker.shadowed \subseteq worker.fetched

(* no fetch is attempted for a configured URL that is another spelling of  *)
(* the URL of an existing feed                                             *)
OtherSpellingIsNotFetched ==
    worker.cycle > 0 => worker.shadowed \cap worker.fetched = {}

OtherSpellingProcessed ==
    CycleEndedWithoutError /\ worker.cycle = MaxCycles /\ worker.shadowed # {}

---------------------------------------------------------------------------
(* SpecOverlap: the mutating calls of the local backend from callers that  *)
(* overlap, step by step as in SpecFile; no file operation raises and the  *)
(* process does not end                                                    *)

FileKeys == {<<97>>, <<98>>}
FileBatches == {<<SizedObject(97, 1)>>, <<SizedObject(97, 0), SizedObject(98, 0)>>}

RECURSIVE FileWriteObjectsFrom(_, _, _, _, _)
FileWriteObjectsFrom(entities, data, partition, t, i) ==
    IF i > Len(data) THEN entities
    ELSE FileWriteObjectsFrom(FileWriteObject(entities, data[i], partition, t).entities,
                              data, partition, t, i + 1)

(* delete partitionData[key] for every key of keys *)
FileDeleteKeys(entities, keys, partition) ==
    SelectSeq(entities, LAMBDA e : ~(e.partition = partition /\ e.id \in keys))

HasPartition(entities, partition) ==
    \E i \in DOMAIN entities : entities[i].partition = partition

(* writeToDisk, to its first await: it returns at once when a write is in  *)
(* flight, else it sets the flag and awaits ensureDirectory                *)
WriteToDiskEntered(f, c) ==
    IF f.isWriting THEN f
    ELSE [f EXCEPT !.isWriting = TRUE, !.writers[c].pc = "mkdir"]

CallReturned(f, op) ==
    IF f.isWriting THEN [op |-> op, arg |-> <<>>, outcome |-> "not written"] ELSE last

(* writeObjects: every object is put in the store, then writeToDisk *)
FileCallWriteBatch ==
    \E c \in Callers, data \in FileBatches :
        /\ file.fileLoaded
        /\ file.writers[c].pc = "idle"
        /\ file' = WriteToDiskEntered(
                       [file EXCEPT !.dataStore =
                           FileWriteObjectsFrom(@, data, FEED_PARTITION, now, 1)], c)
        /\ last' = CallReturned(file, "file.writeObjects")
        /\ UNCHANGED disk
        /\ FileFrame

(* deleteObject: it returns when the store has no such partition; the      *)
(* delete operator gives true whether or not the key was there             *)
FileCallDelete ==
    \E c \in Callers, key \in FileKeys :
        /\ file.fileLoaded
        /\ file.writers[c].pc = "idle"
        /\ IF ~HasPartition(file.dataStore, FEED_PARTITION)
           THEN /\ file' = file
                /\ last' = [op |-> "file.deleteObject", arg |-> <<>>, outcome |-> "no partition"]
           ELSE /\ file' = WriteToDiskEntered(
                               [file EXCEPT !.dataStore =
                                   FileDeleteKeys(@, {key}, FEED_PARTITION)], c)
                /\ last' = CallReturned(file, "file.deleteObject")
        /\ UNCHANGED disk
        /\ FileFrame

(* deleteObjects: it returns for no key and for no such partition *)
FileCallDeleteBatch ==
    \E c \in Callers, keys \in SUBSET FileKeys :
        /\ file.fileLoaded
        /\ file.writers[c].pc = "idle"
        /\ IF keys = {} \/ ~HasPartition(file.dataStore, FEED_PARTITION)
           THEN /\ file' = file
                /\ last' = [op |-> "file.deleteObjects", arg |-> <<>>, outcome |-> "no partition"]
           ELSE /\ file' = WriteToDiskEntered(
                               [file EXCEPT !.dataStore =
                                   FileDeleteKeys(@, keys, FEED_PARTITION)], c)
                /\ last' = CallReturned(file, "file.deleteObjects")
        /\ UNCHANGED disk
        /\ FileFrame

NextOverlap ==
    \/ FileLoad
    \/ FileCallWrite
    \/ FileCallWriteBatch
    \/ FileCallDelete
    \/ FileCallDeleteBatch
    \/ FileWriteStarts
    \/ FileWriteBlock
    \/ FileRename

SpecOverlap == Init /\ [][NextOverlap]_vars

AllCallsReturned == file.fileLoaded /\ Writing = {} /\ ~file.isWriting

(* C36: when every mutating call has returned, the document on disk holds  *)
(* the entities of the in-memory store                                     *)
C36_DiskHoldsStore ==
    AllCallsReturned => StoredOnDisk = file.dataStore

(* a call that found no write in flight leaves on disk the store as it was *)
(* when its document was made                                              *)
WriteAloneReachesDisk ==
    [][FileRename => \E c \in Callers :
                        /\ file.writers[c].pc = "rename"
                        /\ StoredOnDisk' = ParseDocument(file.writers[c].content)[1]]_vars

(* every call has returned and the store holds an entity that the document *)
(* on disk does not                                                        *)
OverlappedWriteLost ==
    /\ AllCallsReturned
    /\ \E i \in DOMAIN file.dataStore :
           \A j \in DOMAIN StoredOnDisk : StoredOnDisk[j].id # file.dataStore[i].id

---------------------------------------------------------------------------
(* SpecOrder: refreshFeed on one feed with a failure at any of its three   *)
(* storage calls: the write of the items, the retention delete, the write  *)
(* of the Feed record.  Time does not pass and the entries are inside the  *)
(* retention window, so no item is deleted.                                *)

SecondEntry == [guid |-> "h", link |-> "m", publishedTime |-> StartTime - 2 * MinutesPerDay]
OrderFetches == {None, Some(<<>>), Some(<<RecentEntry>>), Some(<<RecentEntry, SecondEntry>>)}
OrderFaults == {"none", "items.write", "items.delete", "feeds.write"}

RefreshOrdering ==
    \E id \in KnownIds, fetch \in OrderFetches, llm \in SummaryOutcomes,
       fault \in OrderFaults :
        LET r == RefreshFeed(Cur, id, fetch, llm, fault, now)
        IN  /\ Commit(r.s)
            /\ last' = [op |-> "refreshFeed", arg |-> id,
                        outcome |-> RefreshOutcome(Cur, id, fetch, r),
                        fault |-> fault,
                        fetch |-> fetch,
                        passed |-> ProcessingOf(Cur, id, fetch, "none"),
                        ret |-> r.ret,
                        feedsBefore |-> feedsTable,
                        tableBefore |-> itemsTable]
            /\ UNCHANGED <<now, addFeedResults, envVars>>

NextOrder ==
    \/ DoAddFeed(OneUrl, {Some(<<>>)}, NoSummaries, {"none"})
    \/ RefreshOrdering

SpecOrder == Init /\ [][NextOrder]_vars

StoredTimes(table, id) ==
    {table[i].data.publishedTime : i \in {j \in DOMAIN table : table[j].pk = id}}

(* C37: the latestItemPublishedTime of a stored Feed record is the         *)
(* published time of an item that the item table holds; a refresh whose    *)
(* item write or retention delete raised has not written the Feed record   *)
C37_FeedRecordFollowsItems ==
    /\ \A i \in DOMAIN feedsTable :
           feedsTable[i].data.latestItemPublishedTime # 0 =>
               feedsTable[i].data.latestItemPublishedTime
                   \in StoredTimes(itemsTable, feedsTable[i].data.id)
    /\ (/\ last.op = "refreshFeed"
        /\ last.outcome = "raised"
        /\ last.fault \in {"items.write", "items.delete"}) =>
           feedsTable = last.feedsBefore

(* the order of the writes: a refresh that has written the Feed record has *)
(* written the items it processed, and one whose item write or retention   *)
(* delete raised has not written the Feed record                           *)
ItemsWrittenBeforeFeedRecord ==
    /\ (last.op = "refreshFeed" /\ feedsTable # last.feedsBefore) =>
           IdsOf(last.passed) \subseteq StoredIds(itemsTable, last.arg)
    /\ (/\ last.op = "refreshFeed"
        /\ last.outcome = "raised"
        /\ last.fault \in {"items.write", "items.delete"}) =>
           feedsTable = last.feedsBefore
    /\ (/\ last.op = "refreshFeed"
        /\ last.outcome = "raised"
        /\ last.fault \in {"items.delete", "feeds.write"}) =>
           IdsOf(last.passed) \subseteq StoredIds(itemsTable, last.arg)

(* a refresh writes the Feed record with a latestItemPublishedTime that    *)
(* its own document did not give and that no stored item has               *)
StaleTimeWritten ==
    /\ last.op = "refreshFeed"
    /\ last.outcome = "ok"
    /\ last.fetch = Some(<<>>)
    /\ feedsTable # last.feedsBefore
    /\ \E i \in DOMAIN feedsTable :
           /\ feedsTable[i].data.latestItemPublishedTime # 0
           /\ feedsTable[i].data.latestItemPublishedTime
                  \notin StoredTimes(itemsTable, last.arg)

---------------------------------------------------------------------------
(* SpecShared: the local backend shared by two processes.  file is the     *)
(* FileTableReadWriter of the server process, which only reads; the worker *)
(* process is the only writer, so its store is the document on disk, and   *)
(* each of its writes runs to the end of writeToDisk.  No process is       *)
(* restarted.                                                              *)

(* FileTableReadWriter.getAllObjects: the data of the entities, the latest *)
(* timestamp first, from skip, at most top of them                         *)
FileGetAllObjects(entities, top, skip) ==
    LET sorted == SortDesc([i \in DOMAIN entities |->
                              [data |-> entities[i].data,
                               publishedTime |-> entities[i].timestamp]])
    IN  Slice([i \in DOMAIN sorted |-> sorted[i].data], skip, top)

(* ensureLoaded: the store of the instance after it *)
InstanceLoaded(f, d) ==
    IF f.fileLoaded THEN f
    ELSE [f EXCEPT !.fileLoaded = TRUE, !.dataStore = LoadFromDisk(d).entities]

SharedPartitions == {FEED_PARTITION, "f1"}
SharedObjects == {SizedObject(97, 0), SizedObject(98, 0)}

(* the worker process: writeObject, to the end of writeToDisk *)
WorkerPersists ==
    \E data \in SharedObjects, partition \in SharedPartitions :
        /\ disk' = [disk EXCEPT ![DataFilePath] =
                       Some(Document(FileWriteObject(StoredOnDisk, data, partition, now).entities))]
        /\ last' = [op |-> "worker.writeObject", arg |-> data, outcome |-> "ok", ret |-> <<>>]
        /\ UNCHANGED file
        /\ FileFrame

(* the server process: getAllObjects, as getFeeds calls it *)
ServerGetAllObjects ==
    /\ file' = InstanceLoaded(file, disk)
    /\ last' = [op |-> "server.getAllObjects", arg |-> <<>>, outcome |-> "ok",
                ret |-> FileGetAllObjects(InstanceLoaded(file, disk).dataStore, 0, 0)]
    /\ UNCHANGED disk
    /\ FileFrame

(* the server process: queryObjects on a partition without a filter, as    *)
(* getItemsFromFeed calls it with an empty cache                           *)
ServerQueryObjects(partition) ==
    /\ file' = InstanceLoaded(file, disk)
    /\ last' = [op |-> "server.queryObjects", arg |-> partition, outcome |-> "ok",
                ret |-> FileQueryObjects(InstanceLoaded(file, disk).dataStore, <<>>, partition)]
    /\ UNCHANGED disk
    /\ FileFrame

NextShared ==
    \/ WorkerPersists
    \/ ServerGetAllObjects
    \/ \E partition \in SharedPartitions : ServerQueryObjects(partition)

(* the clients of the server keep asking, for every feed *)
SpecShared ==
    /\ Init
    /\ [][NextShared]_vars
    /\ WF_vars(ServerGetAllObjects)
    /\ \A partition \in SharedPartitions : WF_vars(ServerQueryObjects(partition))

PersistedOnDisk(data, partition) ==
    \E i \in DOMAIN StoredOnDisk :
        StoredOnDisk[i].data = data /\ StoredOnDisk[i].partition = partition

ReadByServer(data, partition) ==
    /\ last.op = "server.queryObjects"
    /\ last.arg = partition
    /\ \E i \in DOMAIN last.ret : last.ret[i] = data

(* C38: an entity that the worker has persisted is eventually returned by  *)
(* the reads of the server                                                 *)
C38_PersistedBecomesVisible ==
    \A data \in SharedObjects, partition \in SharedPartitions :
        PersistedOnDisk(data, partition) ~> ReadByServer(data, partition)

(* the store of an instance that has loaded is not read from disk again *)
LoadedStoreIsNotReloaded ==
    [][file.fileLoaded => file' = file]_vars

(* the first read of the server loads the document that is on disk *)
FirstReadLoadsDisk ==
    [][(~file.fileLoaded /\ file'.fileLoaded) => file'.dataStore = StoredOnDisk]_vars

(* every read of the server returns the entities of the document that was  *)
(* on disk at its first read                                               *)
ServerReadsLoadedStore ==
    last.op = "server.getAllObjects" =>
        /\ file.fileLoaded
        /\ last.ret = FileGetAllObjects(file.dataStore, 0, 0)

(* the server has read, and the disk holds an entity that its store does   *)
(* not                                                                     *)
PersistedNotInServerStore ==
    /\ last.op = "server.getAllObjects"
    /\ \E i \in DOMAIN StoredOnDisk :
           \A j \in DOMAIN last.ret : last.ret[j] # StoredOnDisk[i].data

---------------------------------------------------------------------------
(* SpecPages: getAllObjects of the two backends on the same entities in    *)
(* the same order.  top = 0 and skip = 0 stand for the absent parameters,  *)
(* which the code reads like 0.                                            *)

(* AzureTableReadWriter.getAllObjects, the loop over listEntities from the *)
(* i-th entity: the objects collected                                      *)
RECURSIVE AzureCollected(_, _, _, _)
AzureCollected(listing, i, objects, totalReqCount) ==
    IF i > Len(listing) THEN objects
    ELSE LET object == DeserializeObject(listing[i])
             pushed == IF object # None THEN Append(objects, object[1]) ELSE objects
         IN  IF totalReqCount # 0 /\ Len(pushed) >= totalReqCount THEN pushed
             ELSE AzureCollected(listing, i + 1, pushed, totalReqCount)

(* AzureTableReadWriter.getAllObjects *)
AzureGetAllObjects(listing, top, skip) ==
    Slice(AzureCollected(listing, 1, <<>>, skip + top), skip, top)

MaxListed == 3
PageObjects == {SizedObject(96 + n, 0) : n \in 1..MaxListed}
Listings ==
    UNION {{l \in [1..n -> PageObjects] : \A i, j \in 1..n : i # j => l[i] # l[j]} :
           n \in 0..MaxListed}
PageSizes == 0..MaxListed

(* the entities of the remote table, in the order of the listing *)
AzureListing(listing) ==
    [i \in DOMAIN listing |-> CreateTableEntity(listing[i], FEED_PARTITION, <<>>).entity]

(* the entities of the local store, written one after the other from the   *)
(* last of the listing to the first: the latest timestamp first            *)
FileListing(listing) ==
    [i \in DOMAIN listing |->
        StoredEntity(listing[Len(listing) + 1 - i], FEED_PARTITION, i)]

(* the requests: a listing, top and skip *)
PageRequests ==
    {[listing |-> listing, top |-> top, skip |-> skip] :
        listing \in Listings, top \in PageSizes, skip \in PageSizes}

InitPages ==
    /\ MgrInit
    /\ calls = NoCalls
    /\ worker = WorkerIdle
    /\ codec = NoCodec
    /\ azure = NoAzure
    /\ file = NoFile
    /\ disk = NoDisk
    /\ guard = NoGuard
    /\ parser = NoParser
    /\ query \in PageRequests

DoGetAllObjects ==
    /\ last.op = "init"
    /\ last' = [op |-> "getAllObjects", arg |-> query.listing, outcome |-> "ok",
                top |-> query.top, skip |-> query.skip,
                azure |-> AzureGetAllObjects(AzureListing(query.listing),
                                             query.top, query.skip),
                file |-> FileGetAllObjects(FileListing(query.listing),
                                           query.top, query.skip)]
    /\ UNCHANGED <<cachedFeeds, cachedItems, cachedFeedsTimestamp, feedsTable,
                   itemsTable, feedCount, itemCount, now, addFeedResults, envVars>>

NextPages == DoGetAllObjects

SpecPages == InitPages /\ [][NextPages]_vars

(* the elements of the listing from index skip, at most top of them, all   *)
(* of them for top = 0                                                     *)
PageOf(listing, top, skip) ==
    [i \in 1..(IF top = 0 THEN Max({Len(listing) - skip, 0})
               ELSE Min({top, Max({Len(listing) - skip, 0})})) |-> listing[skip + i]]

(* C39: getAllObjects returns on both backends the elements of the listing *)
(* from index skip, at most top of them, and all the remaining ones when   *)
(* top is absent                                                           *)
C39_SamePageOnBothBackends ==
    last.op = "getAllObjects" =>
        /\ last.azure = PageOf(last.arg, last.top, last.skip)
        /\ last.file = PageOf(last.arg, last.top, last.skip)

(* the local backend returns that page for every top and skip *)
FilePageAsListed ==
    last.op = "getAllObjects" => last.file = PageOf(last.arg, last.top, last.skip)

(* the remote backend returns it when top is given or skip is not *)
AzurePageWithTopOrWithoutSkip ==
    (last.op = "getAllObjects" /\ (last.top # 0 \/ last.skip = 0)) =>
        last.azure = PageOf(last.arg, last.top, last.skip)

(* the remote backend returns nothing for a skip without a top *)
AzureSkipWithoutTopIsEmpty ==
    (last.op = "getAllObjects" /\ last.top = 0 /\ last.skip # 0) => last.azure = <<>>

SkipWithoutTopOverLongerListing ==
    /\ last.op = "getAllObjects"
    /\ last.top = 0
    /\ last.skip # 0
    /\ Len(last.arg) > last.skip
    /\ last.file # <<>>

====
